---- MODULE Spec2Model ----
(***************************************************************************)
(* Model of src/src/vfs.c (APSW's VFS shim): the registry and lifecycle of *)
(* VFS wrappers (APSWVFS_new/init/dealloc, unregister) and the engine-     *)
(* facing entry points apswvfs_x* / apswvfsfile_x* with their              *)
(* save/restore of the pending exception and the unraisable sink.          *)
(***************************************************************************)
EXTENDS Integers, Sequences, FiniteSets, TLC

(* ------------------------------ bounds -------------------------------- *)
\* number of VFS wrapper objects that may be created
MaxVfs == 2
\* longest byte string / text a managed method returns
MaxLen == 2
\* number of engine threads that call entry points
MaxThreads == 2
\* width of the C int and of the C long (LP64: long is wider), scaled down
IntBits == 4
LongBits == 6

(* --------------------------- program constants ------------------------ *)
NULL == 0
SQLITE_OK == 0
SQLITE_ERROR == 1
SQLITE_BUSY == 5
SQLITE_NOMEM == 7
SQLITE_IOERR == 10
SQLITE_FULL == 13
SQLITE_CANTOPEN == 14
SQLITE_TOOBIG == 18
SQLITE_IOERR_SHORT_READ == 522
DefaultMaxPathname == 1024
DefaultSectorSize == 512

VARIABLES
  vfsList,     \* the engine's VFS table: sequence of record ids, head = default
  vfsrec,      \* native sqlite3_vfs records by id (memory state and fields)
  obj,         \* APSWVFS wrapper objects by id
  user,        \* user[w]: the user's code still holds its reference to w
  pend,        \* the thread's pending exception (PyErr_Occurred state)
  unraisable,  \* faults handed to apsw_write_unraiseable by the latest operation
  fh,          \* the engine's file handle (APSWSQLite3File): pMethods, file
  last,        \* what the latest operation was given and what it returned
  ub,          \* undefined behaviour (use of a freed object) has happened
  vfile,       \* the APSWVFSFile object: its base file and the base's method table
  basevtab,    \* the methods present in the vtable of the wrapper's base VFS
  bcall,       \* the call the latest operation made into the base, if any
  gil,         \* the thread that holds the interpreter lock (NoThread: free)
  thr          \* thr[t]: where engine thread t is, and in which entry point

\* the state of the delegating (Python-facing) side and of the threads
pyvars == <<vfile, basevtab, bcall, gil, thr>>

vars == <<vfsList, vfsrec, obj, user, pend, unraisable, fh, last, ub, pyvars>>

(* ------------------------------ integers ------------------------------ *)
RECURSIVE Pow2(_)
Pow2(n) == IF n = 0 THEN 1 ELSE 2 * Pow2(n - 1)

INT_MAX == Pow2(IntBits - 1) - 1
LONG_MAX == Pow2(LongBits - 1) - 1

FitsInt(n) == n >= 0 - INT_MAX - 1 /\ n <= INT_MAX
FitsLong(n) == n >= 0 - LONG_MAX - 1 /\ n <= LONG_MAX

\* the C cast (int)x of a long: wraps modulo 2^IntBits
CastInt(n) == ((n + INT_MAX + 1) % Pow2(IntBits)) - INT_MAX - 1

(* ----------------------------- exceptions ----------------------------- *)
\* an exception: its class and its extendedresult attribute (0: none)
Exc(cls, ext) == [cls |-> cls, ext |-> ext]
NoFault == Exc("none", 0)

\* class raised for a status code (make_exception, reached through SET_EXC)
ClassOfCode(code) ==
  CASE code = SQLITE_BUSY -> "BusyError"
    [] code = SQLITE_NOMEM -> "NoMemError"
    [] code = SQLITE_IOERR -> "IOError"
    [] code = SQLITE_FULL -> "FullError"
    [] code = SQLITE_CANTOPEN -> "CantOpenError"
    [] code = SQLITE_TOOBIG -> "TooBigError"
    [] OTHER -> "SQLError"

\* primary status code of an exception class (exc_descriptors); anything
\* that is not one of the binding's own classes is SQLITE_ERROR
CodeOfClass(cls) ==
  CASE cls = "BusyError" -> SQLITE_BUSY
    [] cls = "NoMemError" -> SQLITE_NOMEM
    [] cls = "IOError" -> SQLITE_IOERR
    [] cls = "FullError" -> SQLITE_FULL
    [] cls = "CantOpenError" -> SQLITE_CANTOPEN
    [] cls = "TooBigError" -> SQLITE_TOOBIG
    [] OTHER -> SQLITE_ERROR

\* MakeSqliteMsgFromPyException: the status code for the pending exception,
\* (extendedresult & 0xffffff00) | primary; the exception stays pending
MakeSqliteMsgFromPyException(e) ==
  (e.ext - (e.ext % 256)) + CodeOfClass(e.cls)

\* SET_EXC(res, NULL): raise the exception for res unless res is OK or an
\* exception is already pending
SET_EXC(res, cur) ==
  IF res # SQLITE_OK /\ cur = NoFault THEN Exc(ClassOfCode(res % 256), res) ELSE cur

\* faults the caller of an operation may already be propagating
CallerFaults == {Exc("KeyboardInterrupt", 0)}

(* --------------------------- managed values --------------------------- *)
Byte == {0, 7}
Bytes == UNION {[1..n -> Byte] : n \in 0..MaxLen}

PyVal(t, n, b) == [t |-> t, n |-> n, b |-> b]
PyNone == PyVal("none", 0, <<>>)
PyInt(n) == PyVal("int", n, <<>>)
PyFloat(n) == PyVal("float", n, <<>>)
PyBytes(b) == PyVal("bytes", 0, b)
PyUnicode(b) == PyVal("unicode", 0, b)
PyObject == PyVal("object", 0, <<>>)

IntVals ==
  {0 - LONG_MAX - 2, 0 - 1, 0, 1, 3, INT_MAX, INT_MAX + 1, Pow2(IntBits) + 3,
   LONG_MAX, LONG_MAX + 1}

\* what a managed method did: raised exc, or returned val; for xOpen also
\* what it left of the flags list (still two items, item 1)
Outcome(raised, exc, val, flagsok, flag1) ==
  [raised |-> raised, exc |-> exc, val |-> val, flagsok |-> flagsok, flag1 |-> flag1]
NoOutcome == Outcome(FALSE, NoFault, PyNone, TRUE, PyNone)

\* the record of the latest operation
\* what an entry point wrote through its out-parameters: whether the integer
\* slot (pResOut, pOutFlags, pSize) was written and with what, and the bytes
\* copied to the output buffer
IO(set, res, buf) == [set |-> set, res |-> res, buf |-> buf]
NoIo == IO(FALSE, 0, <<>>)

Done(ep, w, entry, arg, out, ret, err, ecalls, io) ==
  [ep |-> ep, w |-> w, entry |-> entry, arg |-> arg, out |-> out, ret |-> ret,
   err |-> err, ecalls |-> ecalls, io |-> io]

\* the inputs of an operation: base name and fault injection of a
\* construction, the wrappers whose implicit unregister is made to fail,
\* a number (amount, nByte, nOut)
Arg(base, inject, inj, n) == [base |-> base, inject |-> inject, inj |-> inj, n |-> n]
NoArg == Arg("", "", {}, 0)

(* ------------------------ registry and lifecycle ---------------------- *)
Wrappers == 1..MaxVfs
\* the engine's own VFSes: the default one and one declaring vtable version 2
UnixRec == MaxVfs + 1
Os2Rec == MaxVfs + 2
RecIds == 1..(MaxVfs + 2)

VfsNames == {"a", "b"}
NoBase == "<none>"
BaseArgs == {NoBase, "", "a", "os2", "zz"}
BadVersion == 0 - 789426
Injections == {"none", "badversion", "nomem", "regfail"}

VfsRec(mem, zName, pAppData, iVersion, mxPathname, shim) ==
  [mem |-> mem, zName |-> zName, pAppData |-> pAppData, iVersion |-> iVersion,
   mxPathname |-> mxPathname, shim |-> shim]
NoRec == VfsRec("none", "", NULL, 0, 0, FALSE)
\* memset(containingvfs, 0, ...) followed by PyMem_Free
ZeroedRec == VfsRec("freed", "", NULL, 0, 0, FALSE)

Apswvfs(state, refcnt, basevfs, containingvfs, registered) ==
  [state |-> state, refcnt |-> refcnt, basevfs |-> basevfs,
   containingvfs |-> containingvfs, registered |-> registered]
FreeObj == Apswvfs("free", 0, NULL, NULL, FALSE)
DeadObj == Apswvfs("dead", 0, NULL, NULL, FALSE)

\* the state the lifecycle operators transform
State == [vfsList |-> vfsList, vfsrec |-> vfsrec, obj |-> obj, pend |-> pend,
          unraisable |-> <<>>, ub |-> ub, ecalls |-> 0]

\* engine: vfsUnlink, sqlite3_vfs_register, sqlite3_vfs_unregister, sqlite3_vfs_find
vfsUnlink(list, r) == SelectSeq(list, LAMBDA x : x # r)

sqlite3_vfs_register(list, r, makeDflt) ==
  LET l == vfsUnlink(list, r)
  IN IF makeDflt \/ l = <<>> THEN <<r>> \o l ELSE <<Head(l), r>> \o Tail(l)

sqlite3_vfs_unregister(list, r) == vfsUnlink(list, r)

RECURSIVE FindByName(_, _, _)
FindByName(list, recs, zName) ==
  IF list = <<>> THEN NULL
  ELSE IF recs[Head(list)].zName = zName THEN Head(list)
  ELSE FindByName(Tail(list), recs, zName)

\* zName "" stands for the NULL name: the default VFS
sqlite3_vfs_find(list, recs, zName) ==
  IF zName = "" THEN (IF list = <<>> THEN NULL ELSE Head(list))
  ELSE FindByName(list, recs, zName)

\* apsw_write_unraiseable: hands the pending exception to the excepthook
\* and clears it
apsw_write_unraiseable(st) ==
  [st EXCEPT !.unraisable = Append(@, st.pend), !.pend = NoFault]

APSWVFS_new(st, w) ==
  [st EXCEPT !.obj[w] = Apswvfs("alive", 1, NULL, NULL, FALSE)]

\* the "error:" exit without the release of the native record
APSWVFS_init_error_leak(st, w, exc) ==
  [st |-> st, ret |-> 0 - 1, err |-> exc]

\* the "error:" exit of APSWVFS_init
APSWVFS_init_error(st, w, exc) ==
  LET c == st.obj[w].containingvfs
      s1 == IF c # NULL THEN [st EXCEPT !.vfsrec[c] = ZeroedRec] ELSE st
  IN [st |-> [s1 EXCEPT !.obj[w].containingvfs = NULL], ret |-> 0 - 1, err |-> exc]

\* the success exit with the reference on the base wrapper forgotten
APSWVFS_init_registered_noref(st, w, found) ==
  [st EXCEPT !.obj[w].registered = TRUE]

\* the success exit of APSWVFS_init: registered, and a reference taken on
\* the base's wrapper when the base is an instance of this shim
APSWVFS_init_registered(st, w, found) ==
  IF found # NULL /\ st.vfsrec[found].shim
    THEN [st EXCEPT !.obj[w].registered = TRUE,
                    !.obj[st.vfsrec[found].pAppData].refcnt = @ + 1]
    ELSE [st EXCEPT !.obj[w].registered = TRUE]

APSWVFS_init(st, w, name, base, makedefault, maxpathname, inject) ==
  LET found == IF base = NoBase THEN st.obj[w].basevfs
               ELSE sqlite3_vfs_find(st.vfsList, st.vfsrec, base)
      s1 == [st EXCEPT !.obj[w].basevfs = found,
                       !.ecalls = IF base = NoBase THEN @ ELSE @ + 1]
      baseversion == IF inject = "badversion" THEN BadVersion
                     ELSE st.vfsrec[found].iVersion
      mx == IF found # NULL /\ maxpathname = 0 THEN st.vfsrec[found].mxPathname
            ELSE IF maxpathname # 0 THEN maxpathname ELSE DefaultMaxPathname
      s2 == [s1 EXCEPT !.vfsrec[w] = VfsRec("alloc", name, w, 1, mx, TRUE),
                       !.obj[w].containingvfs = w]
      res == IF inject = "regfail" THEN SQLITE_NOMEM ELSE SQLITE_OK
      s3 == IF inject = "regfail" THEN s2
            ELSE [s2 EXCEPT !.vfsList = sqlite3_vfs_register(@, w, makedefault),
                            !.ecalls = @ + 1]
  IN IF base # NoBase /\ found = NULL
       THEN APSWVFS_init_error(s1, w, Exc("ValueError", 0))
     ELSE IF base # NoBase /\ baseversion # 1
       THEN APSWVFS_init_error(s1, w, Exc("ValueError", 0))
     ELSE IF inject = "nomem"
       THEN [st |-> s1, ret |-> 0 - 1, err |-> NoFault]
     ELSE IF res = SQLITE_OK
       THEN [st |-> APSWVFS_init_registered(s3, w, found), ret |-> 0, err |-> NoFault]
     ELSE APSWVFS_init_error(s3, w, SET_EXC(res, NoFault))

\* unregister that leaves the registered flag set
apswvfspy_unregister_keepflag(st, w, inject) ==
  IF st.obj[w].registered
    THEN LET res == IF inject THEN SQLITE_IOERR ELSE SQLITE_OK
         IN [st EXCEPT !.vfsList = sqlite3_vfs_unregister(@, st.obj[w].containingvfs),
                       !.ecalls = @ + 1,
                       !.pend = SET_EXC(res, @)]
    ELSE st

\* apswvfspy_unregister: st.pend is the exception left pending on return
apswvfspy_unregister(st, w, inject) ==
  IF st.obj[w].registered
    THEN LET res == IF inject THEN SQLITE_IOERR ELSE SQLITE_OK
         IN [st EXCEPT !.vfsList = sqlite3_vfs_unregister(@, st.obj[w].containingvfs),
                       !.ecalls = @ + 1,
                       !.obj[w].registered = FALSE,
                       !.pend = SET_EXC(res, @)]
    ELSE st

\* the containingvfs part without PyErr_Fetch / PyErr_Restore
APSWVFS_dealloc_containing_norestore(st, w, inject) ==
  LET c == st.obj[w].containingvfs
      un == apswvfspy_unregister(st, w, inject)
      sunk == IF un.pend # NoFault THEN apsw_write_unraiseable(un) ELSE un
  IN [sunk EXCEPT !.vfsrec[c] = ZeroedRec, !.obj[w].containingvfs = NULL]

\* APSWVFS_dealloc, the containingvfs part: unregister with the caller's
\* pending exception saved, a failure to the sink, the exception restored,
\* the record zeroed and freed
APSWVFS_dealloc_containing(st, w, inject) ==
  LET c == st.obj[w].containingvfs
      saved == st.pend
      un == apswvfspy_unregister([st EXCEPT !.pend = NoFault], w, inject)
      sunk == IF un.pend # NoFault THEN apsw_write_unraiseable(un) ELSE un
  IN [sunk EXCEPT !.pend = saved, !.vfsrec[c] = ZeroedRec,
                  !.obj[w].containingvfs = NULL]

RECURSIVE APSWVFS_dealloc(_, _, _)
APSWVFS_dealloc(st, w, inj) ==
  LET o == st.obj[w]
      b == o.basevfs
  IN IF b # NULL /\ st.vfsrec[b].mem # "alloc"
       THEN [st EXCEPT !.ub = TRUE]
     ELSE
       LET a == st.vfsrec[b].pAppData
           dec == [st EXCEPT !.obj[a].refcnt = @ - 1]
           s1 == IF b # NULL /\ st.vfsrec[b].shim
                   THEN IF dec.obj[a].refcnt = 0 THEN APSWVFS_dealloc(dec, a, inj)
                        ELSE dec
                   ELSE st
           s2 == IF o.containingvfs # NULL
                   THEN APSWVFS_dealloc_containing(s1, w, w \in inj)
                   ELSE s1
       IN IF s1.ub THEN s1 ELSE [s2 EXCEPT !.obj[w] = DeadObj]

Py_DECREF(st, w, inj) ==
  LET dec == [st EXCEPT !.obj[w].refcnt = @ - 1]
  IN IF dec.obj[w].refcnt = 0 THEN APSWVFS_dealloc(dec, w, inj) ELSE dec

Install(st) ==
  /\ vfsList' = st.vfsList
  /\ vfsrec' = st.vfsrec
  /\ obj' = st.obj
  /\ pend' = st.pend
  /\ unraisable' = st.unraisable
  /\ ub' = st.ub

\* refs: the references the bridge holds on managed file objects for this
\* handle
ClosedHandle == [pMethods |-> "null", file |-> "null", refs |-> 0]

\* the method slots of a sqlite3_vfs and of a sqlite3_io_methods table
VfsMethods ==
  {"xDelete", "xAccess", "xFullPathname", "xOpen", "xDlOpen", "xDlSym", "xDlClose",
   "xDlError", "xRandomness", "xSleep", "xCurrentTime", "xGetLastError"}
FileMethods ==
  {"xRead", "xWrite", "xUnlock", "xLock", "xTruncate", "xSync", "xSectorSize",
   "xDeviceCharacteristics", "xFileSize", "xCheckReservedLock", "xFileControl",
   "xClose"}

\* APSWVFSFile_new: a file object with no base file. closes and frees count
\* the calls of the base's xClose on, and of PyMem_Free of, the native file
\* the object was given; closing: the base's xClose is running; state:
\* "dead" once the object has been deallocated
NewFile ==
  [base |-> "null", pMethods |-> {}, closes |-> 0, frees |-> 0, closing |-> FALSE,
   state |-> "alive"]
\* self->base=file: a file object over a native file just opened, whose
\* method table has the methods tab
OpenFile(tab) == [NewFile EXCEPT !.base = "file", !.pMethods = tab]
\* a result of the base: status (or value returned), value of the integer
\* out-parameter, bytes written to the buffer
BaseRes(res, val, buf) == [res |-> res, val |-> val, buf |-> buf]
\* no call into the base / one call of method ep that gave b
\* gil: the thread that held the interpreter lock while the base ran
NoThread == NULL
NoBaseCall == [n |-> 0, ep |-> "", b |-> BaseRes(0, 0, <<>>), gil |-> NoThread]
BaseCall(n, ep, b, g) ==
  IF n > 0 THEN [n |-> n, ep |-> ep, b |-> b, gil |-> g] ELSE NoBaseCall

\* threads: a thread is in the engine, not holding the interpreter lock
Threads == 1..MaxThreads
\* (pc "engine"), runs managed code of its own holding the lock ("python")
\* or is in the managed-call section of entry point ep ("managed")
InEngine == [pc |-> "engine", ep |-> "", gilstate |-> "UNLOCKED"]
\* the thread that runs the managed code and the single-threaded engine
MainThread == 1
\* gilstate=PyGILState_Ensure(): thread t holds the lock afterwards; the
\* value returned tells whether it held it before. Defined when the lock is
\* free or t's own (the call blocks otherwise)
PyGILState_Ensure(g, t) ==
  [gil |-> t, gilstate |-> IF g = t THEN "LOCKED" ELSE "UNLOCKED"]
\* a release that leaves the lock with the thread
PyGILState_Release_keep(g, gilstate) == g
\* PyGILState_Release(gilstate): the lock is as it was before the Ensure
PyGILState_Release(g, gilstate) == IF gilstate = "UNLOCKED" THEN NoThread ELSE g

\* before any wrapper exists: the engine's table holds its own two VFSes
InitState ==
  [vfsList |-> <<UnixRec, Os2Rec>>,
   vfsrec |-> [r \in RecIds |->
                 IF r = UnixRec THEN VfsRec("alloc", "unix", NULL, 1, DefaultMaxPathname, FALSE)
                 ELSE IF r = Os2Rec THEN VfsRec("alloc", "os2", NULL, 2, DefaultMaxPathname, FALSE)
                 ELSE NoRec],
   obj |-> [w \in Wrappers |-> FreeObj],
   pend |-> NoFault, unraisable |-> <<>>, ub |-> FALSE, ecalls |-> 0]

Init ==
  /\ vfsList = InitState.vfsList
  /\ vfsrec = InitState.vfsrec
  /\ obj = InitState.obj
  /\ user = [w \in Wrappers |-> FALSE]
  /\ pend = NoFault
  /\ unraisable = <<>>
  /\ fh = ClosedHandle
  /\ vfile = NewFile
  /\ basevtab = VfsMethods
  /\ bcall = NoBaseCall
  /\ gil = NoThread
  /\ thr = [t \in Threads |-> InEngine]
  /\ last = Done("start", 0, NoFault, NoArg, NoOutcome, 0, NoFault, 0, NoIo)
  /\ ub = FALSE

\* VFS(name, base, makedefault, maxpathname): tp_new then tp_init
Construct(w, name, base, makedefault, maxpathname, inject) ==
  /\ ~ub
  /\ pend = NoFault
  /\ obj[w].state = "free"
  /\ \A v \in 1..(w - 1) : obj[v].state # "free"
  /\ LET r == APSWVFS_init(APSWVFS_new(State, w), w, name, base, makedefault,
                           maxpathname, inject)
     IN /\ Install(r.st)
        /\ last' = Done("init", w, pend, Arg(base, inject, {}, 0), NoOutcome, r.ret, r.err,
                        r.st.ecalls, NoIo)
  /\ user' = [user EXCEPT ![w] = TRUE]
  /\ UNCHANGED <<fh, pyvars>>

\* the user calls vfs.unregister()
Unregister(w, inject) ==
  /\ ~ub
  /\ pend = NoFault
  /\ user[w]
  /\ IF obj[w].state = "dead"
       THEN /\ ub' = TRUE
            /\ last' = Done("unregister", w, pend, NoArg, NoOutcome, 0, NoFault, 0, NoIo)
            /\ UNCHANGED <<vfsList, vfsrec, obj, pend, unraisable>>
       ELSE /\ obj[w].containingvfs # NULL
            /\ LET s == apswvfspy_unregister(State, w, inject)
               IN /\ Install([s EXCEPT !.pend = NoFault])
                  /\ last' = Done("unregister", w, pend, NoArg, NoOutcome,
                                  IF s.pend = NoFault THEN 0 ELSE 0 - 1, s.pend,
                                  s.ecalls, NoIo)
  /\ UNCHANGED <<user, fh, pyvars>>

\* the user drops their reference to w
Release(w, inj) ==
  /\ ~ub
  /\ user[w]
  /\ user' = [user EXCEPT ![w] = FALSE]
  /\ IF obj[w].state = "dead"
       THEN /\ ub' = TRUE
            /\ last' = Done("release", w, pend, NoArg, NoOutcome, 0, NoFault, 0, NoIo)
            /\ UNCHANGED <<vfsList, vfsrec, obj, pend, unraisable>>
       ELSE LET s == Py_DECREF(State, w, inj)
            IN /\ Install(s)
               /\ last' = Done("release", w, pend, Arg("", "", inj, 0), NoOutcome, 0, NoFault,
                               s.ecalls, NoIo)
  /\ UNCHANGED <<fh, pyvars>>

\* the calling code starts or stops propagating a fault of its own
OuterFault(e) ==
  /\ ~ub
  /\ e # pend
  /\ pend' = e
  /\ unraisable' = <<>>
  /\ last' = Done("outer", 0, pend, NoArg, NoOutcome, 0, NoFault, 0, NoIo)
  /\ UNCHANGED <<vfsList, vfsrec, obj, user, fh, ub, pyvars>>

ConstructWith(injections) ==
  \E w \in Wrappers, name \in VfsNames, base \in BaseArgs,
     makedefault \in BOOLEAN, maxpathname \in {0}, inject \in injections :
    Construct(w, name, base, makedefault, maxpathname, inject)

Next ==
  \/ ConstructWith(Injections)
  \/ \E w \in Wrappers, inject \in BOOLEAN : Unregister(w, inject)
  \/ \E w \in Wrappers, inj \in SUBSET {v \in Wrappers : obj[v].registered} : Release(w, inj)
  \/ \E e \in CallerFaults \cup {NoFault} : OuterFault(e)

Spec == Init /\ [][Next]_vars

\* the registry with constructions that fail only for a missing or a
\* wrong-version base: the operations of a shim, its base and their user
NextChain ==
  \/ ConstructWith({"none"})
  \/ \E w \in Wrappers, inject \in BOOLEAN : Unregister(w, inject)
  \/ \E w \in Wrappers, inj \in SUBSET {v \in Wrappers : obj[v].registered} : Release(w, inj)
  \/ \E e \in CallerFaults \cup {NoFault} : OuterFault(e)

SpecChain == Init /\ [][NextChain]_vars

(* ----------------------- engine-facing entry points ------------------- *)
\* texts a managed method returns (no NUL inside); one is longer than MaxLen
Texts == UNION {[1..n -> {7}] : n \in 0..(MaxLen + 1)}

\* exceptions a managed method raises: not one of the binding's own, busy
\* (plain and with an extended code), and two other classes of the binding
ManagedFaults ==
  {Exc("ZeroDivisionError", 0), Exc("BusyError", 0),
   Exc("BusyError", SQLITE_BUSY + 256), Exc("IOError", 0),
   Exc("FullError", SQLITE_FULL)}

PyInts == {PyInt(n) : n \in IntVals}
Values ==
  {PyNone, PyObject, PyFloat(1)} \cup PyInts
    \cup {PyBytes(b) : b \in Bytes} \cup {PyUnicode(t) : t \in Texts}

Raises == {Outcome(TRUE, e, PyNone, TRUE, PyNone) : e \in ManagedFaults}
Outcomes == Raises \cup {Outcome(FALSE, NoFault, v, TRUE, PyNone) : v \in Values}
\* xOpen: the managed method returns the file object and leaves the flags
\* list with two items or not, item 1 being anything
OpenOutcomes ==
  Raises \cup {Outcome(FALSE, NoFault, PyObject, ok, f) :
                 ok \in BOOLEAN, f \in {PyNone} \cup PyInts}

\* sizes the engine passes (amount, nByte)
Sizes == 0..(MaxLen + 1)

\* result of an entry point's body: the value returned, the exception
\* pending when the postamble is reached, the out-parameters written
R(ret, err, io) == [ret |-> ret, err |-> err, io |-> io]

PyIntLong_Check(v) == v.t = "int"
\* PyIntLong_AsLong / PyLong_AsLongLong / PyLong_AsVoidPtr: -1 and
\* OverflowError when the value does not fit
PyIntLong_AsLong(v) ==
  IF FitsLong(v.n) THEN [v |-> v.n, err |-> NoFault]
  ELSE [v |-> 0 - 1, err |-> Exc("OverflowError", 0)]
\* getutf8string: the UTF-8 bytes of a text, TypeError for anything else
getutf8string(v) ==
  IF v.t = "unicode" THEN [ok |-> TRUE, b |-> v.b, err |-> NoFault]
  ELSE [ok |-> FALSE, b |-> <<>>, err |-> Exc("TypeError", 0)]
\* PyObject_AsReadBuffer: the bytes of a buffer object
PyObject_AsReadBuffer(v) ==
  IF v.t = "bytes" THEN [ok |-> TRUE, b |-> v.b, err |-> NoFault]
  ELSE [ok |-> FALSE, b |-> <<>>, err |-> Exc("TypeError", 0)]
\* PyFloat_AsDouble
PyFloat_AsDouble(v) ==
  IF v.t \in {"float", "int"} THEN [v |-> v.n, err |-> NoFault]
  ELSE [v |-> 0 - 1, err |-> Exc("TypeError", 0)]

Min(a, b) == IF a < b THEN a ELSE b
Take(s, n) == SubSeq(s, 1, Min(Len(s), n))
RECURSIVE Zeros(_)
Zeros(n) == IF n <= 0 THEN <<>> ELSE <<0>> \o Zeros(n - 1)

\* VFSPREAMBLE / FILEPREAMBLE: take the interpreter lock and set the pending
\* exception aside (PyErr_Fetch clears it)
VFSPREAMBLE(p) == [saved |-> p, pend |-> NoFault]
FILEPREAMBLE(p) == [saved |-> p, pend |-> NoFault]

\* postamble that leaves the entry point's own fault pending
VFSPOSTAMBLE_norestore(saved, err) ==
  [pend |-> err, unraisable |-> IF err # NoFault THEN <<err>> ELSE <<>>]

\* VFSPOSTAMBLE: a fault still pending goes to apsw_write_unraiseable (which
\* clears it), then the exception set aside on entry is restored
VFSPOSTAMBLE(saved, err) ==
  [pend |-> saved, unraisable |-> IF err # NoFault THEN <<err>> ELSE <<>>]

\* postamble that never calls the sink
FILEPOSTAMBLE_nosink(saved, err) ==
  [pend |-> saved, unraisable |-> <<>>]

\* FILEPOSTAMBLE: as VFSPOSTAMBLE
FILEPOSTAMBLE(saved, err) ==
  [pend |-> saved, unraisable |-> IF err # NoFault THEN <<err>> ELSE <<>>]

apswvfs_xDelete(out) ==
  IF out.raised THEN R(MakeSqliteMsgFromPyException(out.exc), out.exc, NoIo)
  ELSE R(SQLITE_OK, NoFault, NoIo)

apswvfs_xAccess(out) ==
  LET conv == PyIntLong_AsLong(out.val)
      err == IF out.raised THEN out.exc
             ELSE IF PyIntLong_Check(out.val) THEN conv.err
             ELSE Exc("TypeError", 0)
      nonzero == IF conv.v # 0 THEN 1 ELSE 0
  IN IF err # NoFault
       THEN R(MakeSqliteMsgFromPyException(err), err, IO(TRUE, 0, <<>>))
     ELSE R(SQLITE_OK, NoFault, IO(TRUE, nonzero, <<>>))

\* full pathname that cuts a long result to the buffer instead of failing
apswvfs_xFullPathname_truncate(out, nOut) ==
  LET utf8 == getutf8string(out.val)
  IN IF out.raised
       THEN R(MakeSqliteMsgFromPyException(out.exc), out.exc, NoIo)
     ELSE IF ~utf8.ok
       THEN R(SQLITE_ERROR, utf8.err, NoIo)
     ELSE R(SQLITE_OK, NoFault, IO(FALSE, 0, Take(utf8.b, nOut - 1) \o <<0>>))

apswvfs_xFullPathname(out, nOut) ==
  LET utf8 == getutf8string(out.val)
  IN IF out.raised
       THEN R(MakeSqliteMsgFromPyException(out.exc), out.exc, NoIo)
     ELSE IF ~utf8.ok
       THEN R(SQLITE_ERROR, utf8.err, NoIo)
     ELSE IF Len(utf8.b) + 1 > nOut
       THEN R(SQLITE_TOOBIG, SET_EXC(SQLITE_TOOBIG, NoFault), NoIo)
     ELSE R(SQLITE_OK, NoFault, IO(FALSE, 0, utf8.b \o <<0>>))

\* open that stores the file object in the handle as soon as the managed
\* method has returned it, before the flags are checked
apswvfs_xOpen_early(out, inject) ==
  LET conv == PyIntLong_AsLong(out.flag1)
      written == IO(TRUE, CastInt(conv.v), <<>>)
      res(ret, err, io, install, held) ==
        [ret |-> ret, err |-> err, io |-> io, install |-> install, held |-> held]
  IN IF inject = "oom"
       THEN res(SQLITE_CANTOPEN, Exc("MemoryError", 0), NoIo, FALSE, 0)
     ELSE IF out.raised
       THEN res(MakeSqliteMsgFromPyException(out.exc), out.exc, NoIo, FALSE, 0)
     ELSE IF ~out.flagsok \/ ~PyIntLong_Check(out.flag1)
       THEN res(SQLITE_CANTOPEN, Exc("TypeError", 0), NoIo, TRUE, 0)
     ELSE IF inject = "noflags"
       THEN res(SQLITE_OK, NoFault, NoIo, TRUE, 1)
     ELSE IF conv.err # NoFault
       THEN res(SQLITE_CANTOPEN, conv.err, written, TRUE, 0)
     ELSE res(SQLITE_OK, NoFault, written, TRUE, 1)

\* the result carries install: the file object was stored in the handle and
\* the handle's method table set; and held: the references on the returned
\* file object the bridge still holds when it returns (the one moved into
\* the handle; none after Py_XDECREF(pyresult) at finally)
apswvfs_xOpen(out, inject) ==
  LET conv == PyIntLong_AsLong(out.flag1)
      written == IO(TRUE, CastInt(conv.v), <<>>)
      fail(ret, err, io) ==
        [ret |-> ret, err |-> err, io |-> io, install |-> FALSE, held |-> 0]
      done(io) ==
        [ret |-> SQLITE_OK, err |-> NoFault, io |-> io, install |-> TRUE, held |-> 1]
  IN IF inject = "oom"
       THEN fail(SQLITE_CANTOPEN, Exc("MemoryError", 0), NoIo)
     ELSE IF out.raised
       THEN fail(MakeSqliteMsgFromPyException(out.exc), out.exc, NoIo)
     ELSE IF ~out.flagsok \/ ~PyIntLong_Check(out.flag1)
       THEN fail(SQLITE_CANTOPEN, Exc("TypeError", 0), NoIo)
     ELSE IF inject = "noflags" THEN done(NoIo)
     ELSE IF conv.err # NoFault
       THEN fail(SQLITE_CANTOPEN, conv.err, written)
     ELSE done(written)

\* PyLong_AsVoidPtr: a negative number converts as a long, any other as an
\* unsigned long; the pointer is the number modulo 2^LongBits
PyLong_AsVoidPtr(v) ==
  IF v.n >= 0 - LONG_MAX - 1 /\ v.n <= 2 * LONG_MAX + 1
    THEN [v |-> v.n % Pow2(LongBits), err |-> NoFault]
  ELSE [v |-> NULL, err |-> Exc("OverflowError", 0)]

apswvfs_xDlOpen(out) ==
  LET conv == PyLong_AsVoidPtr(out.val)
      err == IF out.raised THEN out.exc
             ELSE IF PyIntLong_Check(out.val) THEN conv.err
             ELSE Exc("TypeError", 0)
  IN IF err # NoFault THEN R(NULL, err, NoIo) ELSE R(conv.v, NoFault, NoIo)

apswvfs_xDlSym(out) ==
  LET conv == PyLong_AsVoidPtr(out.val)
      err == IF out.raised THEN out.exc
             ELSE IF PyIntLong_Check(out.val) THEN conv.err
             ELSE Exc("TypeError", 0)
  IN IF err # NoFault THEN R(NULL, err, NoIo) ELSE R(conv.v, NoFault, NoIo)

\* returns nothing: ret is 0
apswvfs_xDlClose(out) ==
  R(0, IF out.raised THEN out.exc ELSE NoFault, NoIo)

apswvfs_xDlError(out, nByte) ==
  LET utf8 == getutf8string(out.val)
  IN IF out.raised THEN R(0, out.exc, NoIo)
     ELSE IF out.val = PyNone THEN R(0, NoFault, NoIo)
     ELSE IF utf8.ok THEN R(0, NoFault, IO(FALSE, 0, Take(utf8.b, nByte)))
     ELSE R(0, utf8.err, NoIo)

\* randomness that copies all the bytes returned, whatever the buffer holds
apswvfs_xRandomness_nolimit(out, nByte) ==
  LET asrb == PyObject_AsReadBuffer(out.val)
  IN IF out.raised THEN R(0, out.exc, NoIo)
     ELSE IF out.val.t = "unicode" THEN R(0, Exc("TypeError", 0), NoIo)
     ELSE IF out.val = PyNone THEN R(0, NoFault, NoIo)
     ELSE IF asrb.ok THEN R(Len(asrb.b), NoFault, IO(FALSE, 0, asrb.b))
     ELSE R(0, asrb.err, NoIo)

\* io.buf: the bytes memcpy wrote at the start of zOut
apswvfs_xRandomness(out, nByte) ==
  LET asrb == PyObject_AsReadBuffer(out.val)
  IN IF out.raised THEN R(0, out.exc, NoIo)
     ELSE IF out.val.t = "unicode" THEN R(0, Exc("TypeError", 0), NoIo)
     ELSE IF out.val = PyNone THEN R(0, NoFault, NoIo)
     ELSE IF asrb.ok
       THEN R(Min(Len(asrb.b), nByte), NoFault, IO(FALSE, 0, Take(asrb.b, nByte)))
     ELSE R(0, asrb.err, NoIo)

\* the value converted to long is assigned to the int result also when it
\* does not fit (OverflowError raised, result=actual all the same)
apswvfs_xSleep(out) ==
  LET conv == PyIntLong_AsLong(out.val)
      err == IF conv.err # NoFault THEN conv.err
             ELSE IF conv.v # CastInt(conv.v) THEN Exc("OverflowError", 0)
             ELSE NoFault
  IN IF out.raised THEN R(0, out.exc, NoIo)
     ELSE IF PyIntLong_Check(out.val) THEN R(CastInt(conv.v), err, NoIo)
     ELSE R(0, Exc("TypeError", 0), NoIo)

\* io.res is the value stored in *julian
apswvfs_xCurrentTime(out) ==
  LET conv == PyFloat_AsDouble(out.val)
  IN IF out.raised THEN R(1, out.exc, NoIo)
     ELSE IF conv.err # NoFault THEN R(1, conv.err, IO(TRUE, conv.v, <<>>))
     ELSE R(0, NoFault, IO(TRUE, conv.v, <<>>))

\* returns buffertoosmall
apswvfs_xGetLastError(out, nByte) ==
  LET utf8 == getutf8string(out.val)
  IN IF out.raised THEN R(0, out.exc, NoIo)
     ELSE IF out.val = PyNone THEN R(0, NoFault, NoIo)
     ELSE IF utf8.ok
       THEN R(IF Len(utf8.b) > nByte THEN 1 ELSE 0, NoFault,
              IO(FALSE, 0, Take(utf8.b, nByte)))
     ELSE R(0, utf8.err, NoIo)

\* read that leaves the tail of the buffer untouched on a short read
apswvfsfile_xRead_nozerofill(out, amount, inject) ==
  LET asrb == PyObject_AsReadBuffer(out.val)
  IN IF out.raised
       THEN R(MakeSqliteMsgFromPyException(out.exc), out.exc, NoIo)
     ELSE IF out.val.t = "unicode" \/ ~asrb.ok \/ inject = "asrb"
       THEN R(SQLITE_ERROR, Exc("TypeError", 0), NoIo)
     ELSE IF Len(asrb.b) < amount
       THEN R(SQLITE_IOERR_SHORT_READ, NoFault, IO(FALSE, 0, asrb.b))
     ELSE R(SQLITE_OK, NoFault, IO(FALSE, 0, Take(asrb.b, amount)))

apswvfsfile_xRead(out, amount, inject) ==
  LET asrb == PyObject_AsReadBuffer(out.val)
      size == Len(asrb.b)
  IN IF out.raised
       THEN R(MakeSqliteMsgFromPyException(out.exc), out.exc, NoIo)
     ELSE IF out.val.t = "unicode" \/ ~asrb.ok
       THEN R(SQLITE_ERROR, Exc("TypeError", 0), NoIo)
     ELSE IF inject = "asrb"
       THEN R(SQLITE_ERROR, Exc("TypeError", 0), NoIo)
     ELSE IF size < amount
       THEN R(SQLITE_IOERR_SHORT_READ, NoFault,
              IO(FALSE, 0, asrb.b \o Zeros(amount - size)))
     ELSE R(SQLITE_OK, NoFault, IO(FALSE, 0, Take(asrb.b, amount)))

apswvfsfile_xWrite(out, inject) ==
  LET err == IF inject = "oom" THEN Exc("MemoryError", 0)
             ELSE IF out.raised THEN out.exc ELSE NoFault
  IN IF err # NoFault THEN R(MakeSqliteMsgFromPyException(err), err, NoIo)
     ELSE R(SQLITE_OK, NoFault, NoIo)

apswvfsfile_xUnlock(out) ==
  IF out.raised THEN R(MakeSqliteMsgFromPyException(out.exc), out.exc, NoIo)
  ELSE R(SQLITE_OK, NoFault, NoIo)

\* lock that leaves a busy exception pending
apswvfsfile_xLock_noclear(out) ==
  IF out.raised THEN R(MakeSqliteMsgFromPyException(out.exc), out.exc, NoIo)
  ELSE R(SQLITE_OK, NoFault, NoIo)

\* a busy exception is cleared before the postamble
apswvfsfile_xLock(out) ==
  LET result == MakeSqliteMsgFromPyException(out.exc)
  IN IF out.raised
       THEN R(result, IF result % 256 = SQLITE_BUSY THEN NoFault ELSE out.exc, NoIo)
     ELSE R(SQLITE_OK, NoFault, NoIo)

apswvfsfile_xTruncate(out) ==
  IF out.raised THEN R(MakeSqliteMsgFromPyException(out.exc), out.exc, NoIo)
  ELSE R(SQLITE_OK, NoFault, NoIo)

apswvfsfile_xSync(out) ==
  IF out.raised THEN R(MakeSqliteMsgFromPyException(out.exc), out.exc, NoIo)
  ELSE R(SQLITE_OK, NoFault, NoIo)

\* sector size with no reset of the result when a fault is pending
apswvfsfile_xSectorSize_noreset(out) ==
  LET conv == PyIntLong_AsLong(out.val)
  IN IF out.raised THEN R(MakeSqliteMsgFromPyException(out.exc), out.exc, NoIo)
     ELSE IF out.val = PyNone THEN R(DefaultSectorSize, NoFault, NoIo)
     ELSE IF PyIntLong_Check(out.val) THEN R(CastInt(conv.v), conv.err, NoIo)
     ELSE R(DefaultSectorSize, Exc("TypeError", 0), NoIo)

apswvfsfile_xSectorSize(out) ==
  LET conv == PyIntLong_AsLong(out.val)
      err == IF out.raised THEN out.exc
             ELSE IF out.val = PyNone THEN NoFault
             ELSE IF PyIntLong_Check(out.val) THEN conv.err
             ELSE Exc("TypeError", 0)
  IN IF err # NoFault THEN R(DefaultSectorSize, err, NoIo)
     ELSE IF out.val = PyNone THEN R(DefaultSectorSize, NoFault, NoIo)
     ELSE R(CastInt(conv.v), NoFault, NoIo)

apswvfsfile_xDeviceCharacteristics(out) ==
  LET conv == PyIntLong_AsLong(out.val)
      err == IF out.raised THEN out.exc
             ELSE IF out.val = PyNone THEN NoFault
             ELSE IF PyIntLong_Check(out.val) THEN conv.err
             ELSE Exc("TypeError", 0)
  IN IF err # NoFault THEN R(0, err, NoIo)
     ELSE IF out.val = PyNone THEN R(0, NoFault, NoIo)
     ELSE R(CastInt(conv.v), NoFault, NoIo)

\* file size whose status is not recomputed after the conversion
apswvfsfile_xFileSize_norecheck(out) ==
  LET conv == PyIntLong_AsLong(out.val)
  IN IF out.raised THEN R(MakeSqliteMsgFromPyException(out.exc), out.exc, NoIo)
     ELSE IF PyIntLong_Check(out.val) THEN R(SQLITE_OK, conv.err, IO(TRUE, conv.v, <<>>))
     ELSE R(SQLITE_OK, Exc("TypeError", 0), NoIo)

apswvfsfile_xFileSize(out) ==
  LET conv == PyIntLong_AsLong(out.val)
      err == IF out.raised THEN out.exc
             ELSE IF PyIntLong_Check(out.val) THEN conv.err
             ELSE Exc("TypeError", 0)
      io == IF ~out.raised /\ PyIntLong_Check(out.val) THEN IO(TRUE, conv.v, <<>>)
            ELSE NoIo
  IN IF err # NoFault THEN R(MakeSqliteMsgFromPyException(err), err, io)
     ELSE R(SQLITE_OK, NoFault, io)

\* reserved-lock check that clears a busy exception as xLock does
apswvfsfile_xCheckReservedLock_clearbusy(out) ==
  LET result == MakeSqliteMsgFromPyException(out.exc)
  IN IF out.raised
       THEN R(result, IF result % 256 = SQLITE_BUSY THEN NoFault ELSE out.exc, NoIo)
     ELSE IF PyIntLong_Check(out.val) /\ FitsLong(out.val.n)
       THEN R(SQLITE_OK, NoFault, IO(TRUE, IF out.val.n # 0 THEN 1 ELSE 0, <<>>))
     ELSE R(SQLITE_ERROR, Exc("TypeError", 0), NoIo)

apswvfsfile_xCheckReservedLock(out) ==
  LET conv == PyIntLong_AsLong(out.val)
      err == IF out.raised THEN out.exc
             ELSE IF PyIntLong_Check(out.val) THEN conv.err
             ELSE Exc("TypeError", 0)
      io == IF ~out.raised /\ PyIntLong_Check(out.val)
              THEN IO(TRUE, IF conv.v # 0 THEN 1 ELSE 0, <<>>)
            ELSE NoIo
  IN IF err # NoFault THEN R(MakeSqliteMsgFromPyException(err), err, io)
     ELSE R(SQLITE_OK, NoFault, io)

apswvfsfile_xFileControl(out) ==
  IF out.raised THEN R(MakeSqliteMsgFromPyException(out.exc), out.exc, NoIo)
  ELSE R(SQLITE_OK, NoFault, NoIo)

\* close that keeps the handle's file object when the managed method raised
apswvfsfile_xClose_keep(out) ==
  IF out.raised
    THEN [ret |-> MakeSqliteMsgFromPyException(out.exc), err |-> out.exc, io |-> NoIo,
          decref |-> FALSE, clear |-> FALSE]
  ELSE [ret |-> SQLITE_OK, err |-> NoFault, io |-> NoIo, decref |-> TRUE, clear |-> TRUE]

\* the handle's file object is released (decref) and its slot set to NULL
\* (clear) whatever the managed method did
apswvfsfile_xClose(out) ==
  [ret |-> IF out.raised THEN MakeSqliteMsgFromPyException(out.exc) ELSE SQLITE_OK,
   err |-> IF out.raised THEN out.exc ELSE NoFault,
   io |-> NoIo, decref |-> TRUE, clear |-> TRUE]

\* the wrapper the engine calls into, and its state once constructed as
\* VFS("a", base="", maxpathname=MaxLen)
TheVfs == 1
Registered ==
  APSWVFS_init(APSWVFS_new(InitState, TheVfs), TheVfs, "a", "", FALSE, MaxLen, "none").st

InitCall ==
  /\ vfsList = Registered.vfsList
  /\ vfsrec = Registered.vfsrec
  /\ obj = Registered.obj
  /\ user = [w \in Wrappers |-> w = TheVfs]
  /\ pend = NoFault
  /\ unraisable = <<>>
  /\ fh = ClosedHandle
  /\ vfile = NewFile
  /\ basevtab = VfsMethods
  /\ bcall = NoBaseCall
  /\ gil = NoThread
  /\ thr = [t \in Threads |-> InEngine]
  /\ last = Done("start", 0, NoFault, NoArg, NoOutcome, 0, NoFault, 0, NoIo)
  /\ ub = FALSE

OpenHandle == [pMethods |-> "apsw_io_methods", file |-> "file", refs |-> 1]

\* an engine call into a VFS entry point: preamble, body (result r, handle
\* left as h), postamble
VfsCall(ep, arg, out, r, h) ==
  LET pre == VFSPREAMBLE(pend)
      post == VFSPOSTAMBLE(pre.saved, r.err)
  IN /\ ~ub
     /\ vfsrec[TheVfs].pAppData # NULL
     /\ pend' = post.pend
     /\ unraisable' = post.unraisable
     /\ fh' = h
     /\ last' = Done(ep, TheVfs, pend, arg, out, r.ret, r.err, 0, r.io)
     /\ UNCHANGED <<vfsList, vfsrec, obj, user, ub, pyvars>>

\* an engine call into a file entry point on the open handle
FileCall(ep, arg, out, r, h) ==
  LET pre == FILEPREAMBLE(pend)
      post == FILEPOSTAMBLE(pre.saved, r.err)
  IN /\ ~ub
     /\ fh.pMethods # "null"
     /\ fh.file # "null"
     /\ pend' = post.pend
     /\ unraisable' = post.unraisable
     /\ fh' = h
     /\ last' = Done(ep, TheVfs, pend, arg, out, r.ret, r.err, 0, r.io)
     /\ UNCHANGED <<vfsList, vfsrec, obj, user, ub, pyvars>>

Engine_xDelete ==
  \E out \in Outcomes : VfsCall("xDelete", NoArg, out, apswvfs_xDelete(out), fh)
Engine_xAccess ==
  \E out \in Outcomes : VfsCall("xAccess", NoArg, out, apswvfs_xAccess(out), fh)
Engine_xFullPathname ==
  \E out \in Outcomes :
    LET nOut == vfsrec[TheVfs].mxPathname + 1
    IN VfsCall("xFullPathname", Arg("", "", {}, nOut), out,
               apswvfs_xFullPathname(out, nOut), fh)
\* the engine opens a file on a handle that holds none
Engine_xOpen ==
  /\ fh.file = "null"
  /\ \E out \in OpenOutcomes, inject \in {"none", "oom", "noflags"} :
       LET r == apswvfs_xOpen(out, inject)
       IN VfsCall("xOpen", Arg("", inject, {}, 0), out, r,
                  IF r.install
                    THEN [pMethods |-> "apsw_io_methods", file |-> "file", refs |-> r.held]
                  ELSE [fh EXCEPT !.refs = @ + r.held])
Engine_xDlOpen ==
  \E out \in Outcomes : VfsCall("xDlOpen", NoArg, out, apswvfs_xDlOpen(out), fh)
Engine_xDlSym ==
  \E out \in Outcomes : VfsCall("xDlSym", NoArg, out, apswvfs_xDlSym(out), fh)
Engine_xDlClose ==
  \E out \in Outcomes : VfsCall("xDlClose", NoArg, out, apswvfs_xDlClose(out), fh)
Engine_xDlError ==
  \E out \in Outcomes, nByte \in Sizes :
    VfsCall("xDlError", Arg("", "", {}, nByte), out, apswvfs_xDlError(out, nByte), fh)
Engine_xRandomness ==
  \E out \in Outcomes, nByte \in Sizes :
    VfsCall("xRandomness", Arg("", "", {}, nByte), out,
            apswvfs_xRandomness(out, nByte), fh)
Engine_xSleep ==
  \E out \in Outcomes : VfsCall("xSleep", NoArg, out, apswvfs_xSleep(out), fh)
Engine_xCurrentTime ==
  \E out \in Outcomes :
    VfsCall("xCurrentTime", NoArg, out, apswvfs_xCurrentTime(out), fh)
Engine_xGetLastError ==
  \E out \in Outcomes, nByte \in Sizes :
    VfsCall("xGetLastError", Arg("", "", {}, nByte), out,
            apswvfs_xGetLastError(out, nByte), fh)

Engine_xRead ==
  \E out \in Outcomes, amount \in Sizes, inject \in {"none", "asrb"} :
    FileCall("xRead", Arg("", inject, {}, amount), out,
             apswvfsfile_xRead(out, amount, inject), fh)
Engine_xWrite ==
  \E out \in Outcomes, inject \in {"none", "oom"} :
    FileCall("xWrite", Arg("", inject, {}, 0), out, apswvfsfile_xWrite(out, inject), fh)
Engine_xUnlock ==
  \E out \in Outcomes : FileCall("xUnlock", NoArg, out, apswvfsfile_xUnlock(out), fh)
Engine_xLock ==
  \E out \in Outcomes : FileCall("xLock", NoArg, out, apswvfsfile_xLock(out), fh)
Engine_xTruncate ==
  \E out \in Outcomes : FileCall("xTruncate", NoArg, out, apswvfsfile_xTruncate(out), fh)
Engine_xSync ==
  \E out \in Outcomes : FileCall("xSync", NoArg, out, apswvfsfile_xSync(out), fh)
Engine_xSectorSize ==
  \E out \in Outcomes :
    FileCall("xSectorSize", NoArg, out, apswvfsfile_xSectorSize(out), fh)
Engine_xDeviceCharacteristics ==
  \E out \in Outcomes :
    FileCall("xDeviceCharacteristics", NoArg, out,
             apswvfsfile_xDeviceCharacteristics(out), fh)
Engine_xFileSize ==
  \E out \in Outcomes : FileCall("xFileSize", NoArg, out, apswvfsfile_xFileSize(out), fh)
Engine_xCheckReservedLock ==
  \E out \in Outcomes :
    FileCall("xCheckReservedLock", NoArg, out, apswvfsfile_xCheckReservedLock(out), fh)
Engine_xFileControl ==
  \E out \in Outcomes :
    FileCall("xFileControl", NoArg, out, apswvfsfile_xFileControl(out), fh)
Engine_xClose ==
  \E out \in Outcomes :
    LET r == apswvfsfile_xClose(out)
    IN FileCall("xClose", NoArg, out, r,
                [fh EXCEPT !.file = IF r.clear THEN "null" ELSE @,
                           !.refs = IF r.decref THEN @ - 1 ELSE @])

NextCall ==
  \/ Engine_xDelete \/ Engine_xAccess \/ Engine_xFullPathname \/ Engine_xOpen
  \/ Engine_xDlOpen \/ Engine_xDlSym \/ Engine_xDlClose \/ Engine_xDlError
  \/ Engine_xRandomness \/ Engine_xSleep \/ Engine_xCurrentTime
  \/ Engine_xGetLastError
  \/ Engine_xRead \/ Engine_xWrite \/ Engine_xUnlock \/ Engine_xLock
  \/ Engine_xTruncate \/ Engine_xSync \/ Engine_xSectorSize
  \/ Engine_xDeviceCharacteristics \/ Engine_xFileSize
  \/ Engine_xCheckReservedLock \/ Engine_xFileControl \/ Engine_xClose
  \/ \E e \in CallerFaults \cup {NoFault} : OuterFault(e)

SpecCall == InitCall /\ [][NextCall]_vars

(* ------------------ delegating (Python-facing) methods ---------------- *)
ExcVFSNotImplemented == Exc("VFSNotImplementedError", 0)
ExcVFSFileClosed == Exc("VFSFileClosedError", 0)

\* what a delegating method gives its caller (out: raised exc or returned
\* val) and the number of calls it made into the base
PyR(raised, exc, val, n) == [out |-> Outcome(raised, exc, val, TRUE, PyNone), n |-> n]
PyReturn(val) == PyR(FALSE, NoFault, val, 1)
\* raised before any call into the base / after the call
PyFail(exc) == PyR(TRUE, exc, PyNone, 0)
PyRaise(exc) == PyR(TRUE, exc, PyNone, 1)

\* the C string in a buffer: the bytes before the first NUL
RECURSIVE strlen_prefix(_)
strlen_prefix(s) ==
  IF s = <<>> \/ Head(s) = 0 THEN <<>> ELSE <<Head(s)>> \o strlen_prefix(Tail(s))

\* VFSNOTIMPLEMENTED(x): TRUE when the method raises not-implemented
\* (self: the wrapper's basevfs and the base's vtable)
VFSNOTIMPLEMENTED(self, x) == self.basevfs = NULL \/ x \notin self.tab

\* the tail shared by the status-returning delegating methods:
\* res==SQLITE_OK returns val, anything else raises the exception for res
StatusResult(res, val) ==
  IF res = SQLITE_OK THEN PyReturn(val) ELSE PyRaise(SET_EXC(res, NoFault))

\* argsok: PyArg_ParseTuple accepts the arguments
apswvfspy_xDelete(self, argsok, b) ==
  IF VFSNOTIMPLEMENTED(self, "xDelete") THEN PyFail(ExcVFSNotImplemented)
  ELSE IF ~argsok THEN PyFail(Exc("TypeError", 0))
  ELSE StatusResult(b.res, PyNone)

\* access whose truth value is the base's failure status
apswvfspy_xAccess_swapped(self, argsok, b) ==
  IF VFSNOTIMPLEMENTED(self, "xAccess") THEN PyFail(ExcVFSNotImplemented)
  ELSE IF ~argsok THEN PyFail(Exc("TypeError", 0))
  ELSE PyReturn(PyInt(IF b.res # SQLITE_OK THEN 1 ELSE 0))

\* True and False are the integers 1 and 0
apswvfspy_xAccess(self, argsok, b) ==
  IF VFSNOTIMPLEMENTED(self, "xAccess") THEN PyFail(ExcVFSNotImplemented)
  ELSE IF ~argsok THEN PyFail(Exc("TypeError", 0))
  ELSE StatusResult(b.res, PyInt(IF b.val # 0 THEN 1 ELSE 0))

\* b.buf: the path the base wrote; inject: xFullPathnameConversion fails.
\* Without a result res becomes SQLITE_CANTOPEN, whatever the base returned
apswvfspy_xFullPathname(self, name, b, inject) ==
  LET utf8 == getutf8string(name)
      converted == b.res = SQLITE_OK /\ ~inject
      pending == IF b.res = SQLITE_OK /\ inject THEN Exc("MemoryError", 0) ELSE NoFault
  IN IF VFSNOTIMPLEMENTED(self, "xFullPathname") THEN PyFail(ExcVFSNotImplemented)
     ELSE IF ~utf8.ok THEN PyFail(utf8.err)
     ELSE IF converted THEN PyReturn(PyUnicode(strlen_prefix(b.buf)))
     ELSE PyRaise(SET_EXC(SQLITE_CANTOPEN, pending))

\* name: None or a text; flags: the list is two integers (flagsok) with
\* items flag0, flag1; b.val: the flags the base reports. The result carries
\* opened (a VFSFile was created over the base's file) and flag1 (item 1 of
\* the list on return)
apswvfspy_xOpen(self, argsok, name, flagsok, flag0, flag1, b) ==
  LET utf8 == getutf8string(name)
      fin == PyIntLong_AsLong(flag0)
      fout == PyIntLong_AsLong(flag1)
      fail(r) == [out |-> r.out, n |-> r.n, opened |-> FALSE, flag1 |-> flag1]
  IN IF VFSNOTIMPLEMENTED(self, "xOpen") THEN fail(PyFail(ExcVFSNotImplemented))
     ELSE IF ~argsok THEN fail(PyFail(Exc("TypeError", 0)))
     ELSE IF name # PyNone /\ ~utf8.ok THEN fail(PyFail(utf8.err))
     ELSE IF ~flagsok \/ ~PyIntLong_Check(flag0) \/ ~PyIntLong_Check(flag1)
       THEN fail(PyFail(Exc("TypeError", 0)))
     ELSE IF fin.err # NoFault \/ fout.err # NoFault
             \/ CastInt(fin.v) # fin.v \/ CastInt(fout.v) # fout.v
       THEN fail(PyFail(Exc("OverflowError", 0)))
     ELSE IF b.res # SQLITE_OK THEN fail(PyRaise(SET_EXC(b.res, NoFault)))
     ELSE [out |-> PyReturn(PyObject).out, n |-> 1, opened |-> TRUE,
           flag1 |-> PyInt(b.val)]

\* b.res: the handle the base returned
apswvfspy_xDlOpen(self, argsok, b) ==
  IF VFSNOTIMPLEMENTED(self, "xDlOpen") THEN PyFail(ExcVFSNotImplemented)
  ELSE IF ~argsok THEN PyFail(Exc("TypeError", 0))
  ELSE PyReturn(PyInt(b.res))

\* pyptr: the handle argument
apswvfspy_xDlSym(self, argsok, pyptr, b) ==
  LET ptr == PyLong_AsVoidPtr(pyptr)
  IN IF VFSNOTIMPLEMENTED(self, "xDlSym") THEN PyFail(ExcVFSNotImplemented)
     ELSE IF ~argsok THEN PyFail(Exc("TypeError", 0))
     ELSE IF ~PyIntLong_Check(pyptr) THEN PyFail(Exc("TypeError", 0))
     ELSE IF ptr.err # NoFault THEN PyFail(ptr.err)
     ELSE PyReturn(PyInt(b.res))

apswvfspy_xDlClose(self, pyptr) ==
  LET ptr == PyLong_AsVoidPtr(pyptr)
  IN IF VFSNOTIMPLEMENTED(self, "xDlClose") THEN PyFail(ExcVFSNotImplemented)
     ELSE IF ~PyIntLong_Check(pyptr) THEN PyFail(Exc("TypeError", 0))
     ELSE IF ptr.err # NoFault THEN PyFail(ptr.err)
     ELSE PyReturn(PyNone)

\* inject: "alloc" (xDlErrorAllocFail), "unicode" (xDlErrorUnicodeFail)
apswvfspy_xDlError(self, b, inject) ==
  IF VFSNOTIMPLEMENTED(self, "xDlError") THEN PyFail(ExcVFSNotImplemented)
  ELSE IF inject = "alloc" THEN PyFail(Exc("MemoryError", 0))
  ELSE IF strlen_prefix(b.buf) = <<>> THEN PyReturn(PyNone)
  ELSE IF inject = "unicode" THEN PyRaise(Exc("MemoryError", 0))
  ELSE PyReturn(PyUnicode(strlen_prefix(b.buf)))

\* b.res: the amount the base reports, b.buf: the bytes it wrote
apswvfspy_xRandomness(self, argsok, nbyte, b, inject) ==
  IF VFSNOTIMPLEMENTED(self, "xRandomness") THEN PyFail(ExcVFSNotImplemented)
  ELSE IF ~argsok THEN PyFail(Exc("TypeError", 0))
  ELSE IF nbyte < 0 THEN PyFail(Exc("ValueError", 0))
  ELSE IF inject THEN PyFail(Exc("MemoryError", 0))
  ELSE IF b.res < nbyte THEN PyReturn(PyBytes(Take(b.buf, b.res)))
  ELSE PyReturn(PyBytes(Take(b.buf, nbyte)))

apswvfspy_xSleep(self, argsok, b) ==
  IF VFSNOTIMPLEMENTED(self, "xSleep") THEN PyFail(ExcVFSNotImplemented)
  ELSE IF ~argsok THEN PyFail(Exc("TypeError", 0))
  ELSE PyReturn(PyInt(b.res))

\* b.val: the time the base stored; inject: xCurrentTimeFail
apswvfspy_xCurrentTime(self, b, inject) ==
  IF VFSNOTIMPLEMENTED(self, "xCurrentTime") THEN PyFail(ExcVFSNotImplemented)
  ELSE IF b.res # 0 \/ inject THEN PyRaise(SET_EXC(SQLITE_ERROR, NoFault))
  ELSE PyReturn(PyFloat(b.val))

\* toobig: the base finds the first buffer too small and is called again
\* with one twice the size; inject: xGetLastErrorAllocFail on that resize
apswvfspy_xGetLastError(self, b, toobig, inject) ==
  LET n == IF toobig THEN 2 ELSE 1
      msg == strlen_prefix(b.buf)
  IN IF VFSNOTIMPLEMENTED(self, "xGetLastError") THEN PyFail(ExcVFSNotImplemented)
     ELSE IF toobig /\ inject THEN PyRaise(Exc("MemoryError", 0))
     ELSE IF msg = <<>> THEN PyR(FALSE, NoFault, PyNone, n)
     ELSE PyR(FALSE, NoFault, PyBytes(msg), n)

\* file-closed check that lets a closed file through
CHECKVFSFILEPY_open(self) == FALSE

\* CHECKVFSFILEPY: TRUE when the method raises file-closed
\* (self: the file object's base and the base's method table)
CHECKVFSFILEPY(self) == self.base = "null"

\* VFSFILENOTIMPLEMENTED(x): TRUE when the method raises not-implemented
VFSFILENOTIMPLEMENTED(self, x) == self.base = "null" \/ x \notin self.pMethods

\* the loop that drops trailing zero bytes: while(amount && buf[amount-1]==0)
RECURSIVE StripTrailingZeros(_)
StripTrailingZeros(s) ==
  IF s # <<>> /\ s[Len(s)] = 0 THEN StripTrailingZeros(SubSeq(s, 1, Len(s) - 1)) ELSE s

\* read that returns the whole buffer after a short read
apswvfsfilepy_xRead_noscan(self, argsok, amount, b) ==
  IF CHECKVFSFILEPY(self) THEN PyFail(ExcVFSFileClosed)
  ELSE IF VFSFILENOTIMPLEMENTED(self, "xRead") THEN PyFail(ExcVFSNotImplemented)
  ELSE IF ~argsok THEN PyFail(Exc("TypeError", 0))
  ELSE IF b.res = SQLITE_OK \/ b.res = SQLITE_IOERR_SHORT_READ
    THEN PyReturn(PyBytes(Take(b.buf, amount)))
  ELSE PyRaise(SET_EXC(b.res, NoFault))

\* b.buf: the amount bytes of the buffer as the base left them
apswvfsfilepy_xRead(self, argsok, amount, b) ==
  IF CHECKVFSFILEPY(self) THEN PyFail(ExcVFSFileClosed)
  ELSE IF VFSFILENOTIMPLEMENTED(self, "xRead") THEN PyFail(ExcVFSNotImplemented)
  ELSE IF ~argsok THEN PyFail(Exc("TypeError", 0))
  ELSE IF b.res = SQLITE_OK THEN PyReturn(PyBytes(Take(b.buf, amount)))
  ELSE IF b.res = SQLITE_IOERR_SHORT_READ
    THEN PyReturn(PyBytes(StripTrailingZeros(Take(b.buf, amount))))
  ELSE PyRaise(SET_EXC(b.res, NoFault))

\* buffy: the data argument
apswvfsfilepy_xWrite(self, argsok, buffy, b) ==
  IF CHECKVFSFILEPY(self) THEN PyFail(ExcVFSFileClosed)
  ELSE IF VFSFILENOTIMPLEMENTED(self, "xWrite") THEN PyFail(ExcVFSNotImplemented)
  ELSE IF ~argsok THEN PyFail(Exc("TypeError", 0))
  ELSE IF ~PyObject_AsReadBuffer(buffy).ok \/ buffy.t = "unicode"
    THEN PyFail(Exc("TypeError", 0))
  ELSE StatusResult(b.res, PyNone)

\* inject: xUnlockFails
apswvfsfilepy_xUnlock(self, argsok, b, inject) ==
  IF CHECKVFSFILEPY(self) THEN PyFail(ExcVFSFileClosed)
  ELSE IF VFSFILENOTIMPLEMENTED(self, "xUnlock") THEN PyFail(ExcVFSNotImplemented)
  ELSE IF ~argsok THEN PyFail(Exc("TypeError", 0))
  ELSE StatusResult(IF inject THEN SQLITE_IOERR ELSE b.res, PyNone)

apswvfsfilepy_xLock(self, argsok, b) ==
  IF CHECKVFSFILEPY(self) THEN PyFail(ExcVFSFileClosed)
  ELSE IF VFSFILENOTIMPLEMENTED(self, "xLock") THEN PyFail(ExcVFSNotImplemented)
  ELSE IF ~argsok THEN PyFail(Exc("TypeError", 0))
  ELSE StatusResult(b.res, PyNone)

apswvfsfilepy_xTruncate(self, argsok, b) ==
  IF CHECKVFSFILEPY(self) THEN PyFail(ExcVFSFileClosed)
  ELSE IF VFSFILENOTIMPLEMENTED(self, "xTruncate") THEN PyFail(ExcVFSNotImplemented)
  ELSE IF ~argsok THEN PyFail(Exc("TypeError", 0))
  ELSE StatusResult(b.res, PyNone)

\* sync that reports success whatever the base returned
apswvfsfilepy_xSync_ignore(self, argsok, b, inject) ==
  IF CHECKVFSFILEPY(self) THEN PyFail(ExcVFSFileClosed)
  ELSE IF VFSFILENOTIMPLEMENTED(self, "xSync") THEN PyFail(ExcVFSNotImplemented)
  ELSE IF ~argsok THEN PyFail(Exc("TypeError", 0))
  ELSE PyReturn(PyNone)

\* inject: xSyncFails
apswvfsfilepy_xSync(self, argsok, b, inject) ==
  IF CHECKVFSFILEPY(self) THEN PyFail(ExcVFSFileClosed)
  ELSE IF VFSFILENOTIMPLEMENTED(self, "xSync") THEN PyFail(ExcVFSNotImplemented)
  ELSE IF ~argsok THEN PyFail(Exc("TypeError", 0))
  ELSE StatusResult(IF inject THEN SQLITE_IOERR ELSE b.res, PyNone)

apswvfsfilepy_xSectorSize(self, b) ==
  IF CHECKVFSFILEPY(self) THEN PyFail(ExcVFSFileClosed)
  ELSE IF VFSFILENOTIMPLEMENTED(self, "xSectorSize") THEN PyFail(ExcVFSNotImplemented)
  ELSE PyReturn(PyInt(b.res))

apswvfsfilepy_xDeviceCharacteristics(self, b) ==
  IF CHECKVFSFILEPY(self) THEN PyFail(ExcVFSFileClosed)
  ELSE IF VFSFILENOTIMPLEMENTED(self, "xDeviceCharacteristics")
    THEN PyFail(ExcVFSNotImplemented)
  ELSE PyReturn(PyInt(b.res))

\* b.val: the size the base stored; inject: xFileSizeFails
apswvfsfilepy_xFileSize(self, b, inject) ==
  IF CHECKVFSFILEPY(self) THEN PyFail(ExcVFSFileClosed)
  ELSE IF VFSFILENOTIMPLEMENTED(self, "xFileSize") THEN PyFail(ExcVFSNotImplemented)
  ELSE StatusResult(IF inject THEN SQLITE_IOERR ELSE b.res, PyInt(b.val))

\* inject: "fails" (xCheckReservedLockFails), "true" (xCheckReservedLockIsTrue)
apswvfsfilepy_xCheckReservedLock(self, b, inject) ==
  IF CHECKVFSFILEPY(self) THEN PyFail(ExcVFSFileClosed)
  ELSE IF VFSFILENOTIMPLEMENTED(self, "xCheckReservedLock")
    THEN PyFail(ExcVFSNotImplemented)
  ELSE StatusResult(IF inject = "fails" THEN SQLITE_IOERR ELSE b.res,
                    PyInt(IF b.val # 0 \/ inject = "true" THEN 1 ELSE 0))

\* pyptr: the opaque argument
apswvfsfilepy_xFileControl(self, argsok, pyptr, b) ==
  LET ptr == PyLong_AsVoidPtr(pyptr)
  IN IF CHECKVFSFILEPY(self) THEN PyFail(ExcVFSFileClosed)
     ELSE IF VFSFILENOTIMPLEMENTED(self, "xFileControl") THEN PyFail(ExcVFSNotImplemented)
     ELSE IF ~argsok THEN PyFail(Exc("TypeError", 0))
     ELSE IF ~PyIntLong_Check(pyptr) THEN PyFail(Exc("TypeError", 0))
     ELSE IF ptr.err # NoFault THEN PyFail(ptr.err)
     ELSE StatusResult(b.res, PyNone)

\* close that gives up the base before it calls the base's xClose
apswvfsfilepy_xClose_call_early(self) ==
  [self EXCEPT !.base = "null", !.pMethods = {}, !.closes = @ + 1, !.closing = TRUE]

\* res=self->base->pMethods->xClose(self->base) has been called and has not
\* returned: nothing of the file object has changed
apswvfsfilepy_xClose_call(self) == [self EXCEPT !.closes = @ + 1, !.closing = TRUE]

\* return from close that keeps the base
apswvfsfilepy_xClose_return_keep(self) == [self EXCEPT !.closing = FALSE]

\* after the call: pMethods=NULL, PyMem_Free(self->base), self->base=NULL
apswvfsfilepy_xClose_return(self) ==
  [self EXCEPT !.pMethods = {}, !.frees = @ + 1, !.base = "null", !.closing = FALSE]

\* an already closed file returns None without a call; otherwise the base
\* is closed and the file object gives up its base whatever the status
\* (inject: xCloseFails). file: the file object afterwards
apswvfsfilepy_xClose(self, b, inject) ==
  IF self.base = "null" THEN PyR(FALSE, NoFault, PyNone, 0) @@ [file |-> self]
  ELSE StatusResult(IF inject THEN SQLITE_IOERR ELSE b.res, PyNone)
         @@ [file |-> apswvfsfilepy_xClose_return(apswvfsfilepy_xClose_call(self))]

\* APSWVFSFile_dealloc: an object that still has a base is closed first; an
\* exception of that close goes to apsw_write_unraiseable; then tp_free
APSWVFSFile_dealloc(self, b) ==
  LET x == apswvfsfilepy_xClose(self, b, FALSE)
  IN [file |-> [x.file EXCEPT !.state = "dead"], n |-> x.n,
      unraisable |-> IF x.out.raised THEN <<x.out.exc>> ELSE <<>>]

\* status codes a base returns: success and codes of the exception table,
\* two of them extended
BaseStatuses ==
  {SQLITE_OK, SQLITE_ERROR, SQLITE_BUSY, SQLITE_BUSY + 256, SQLITE_NOMEM, SQLITE_IOERR,
   SQLITE_IOERR_SHORT_READ, SQLITE_FULL, SQLITE_CANTOPEN, SQLITE_TOOBIG}
\* a base that only reports a status
StatusOnly == {BaseRes(res, 0, <<>>) : res \in BaseStatuses}
\* a base that reports a status and stores an integer
StatusAndInt == {BaseRes(res, v, <<>>) : res \in BaseStatuses, v \in {0, 1, 3}}
\* a base that returns a number and nothing else
NumberOnly == {BaseRes(v, 0, <<>>) : v \in {0, 1, 3}}
\* vtables of a base VFS: complete, and two that lack some methods
HalfVfs == {"xDelete", "xFullPathname", "xDlOpen", "xDlClose", "xRandomness", "xCurrentTime"}
VfsTabs == {VfsMethods, HalfVfs, VfsMethods \ HalfVfs}
\* method tables of a base file: complete, two that lack some methods, and
\* one that lacks xClose only
HalfFile == {"xRead", "xUnlock", "xTruncate", "xSectorSize", "xFileSize", "xFileControl"}
FileTabs ==
  {FileMethods, HalfFile \cup {"xClose"}, FileMethods \ HalfFile, FileMethods \ {"xClose"}}
\* pointer arguments: a handle, not a number, a number beyond a pointer
Pointers == {PyInt(1), PyNone, PyInt(0 - LONG_MAX - 2)}

\* what a base's xOpen does: opens the file and reports flags, or fails
OpenResults ==
  {BaseRes(SQLITE_OK, 3, <<>>), BaseRes(SQLITE_CANTOPEN, 0, <<>>),
   BaseRes(SQLITE_IOERR, 0, <<>>)}

\* the wrapper as a delegating method sees it
VfsSelf == [basevfs |-> obj[TheVfs].basevfs, tab |-> basevtab]

\* the wrapper constructed as VFS("a", base="") or as VFS("a")
WithBase(base) ==
  APSWVFS_init(APSWVFS_new(InitState, TheVfs), TheVfs, "a", base, FALSE, MaxLen, "none").st

InitPy ==
  /\ \E base \in {"", NoBase} :
       /\ vfsList = WithBase(base).vfsList
       /\ vfsrec = WithBase(base).vfsrec
       /\ obj = WithBase(base).obj
       /\ IF base = NoBase THEN basevtab = {} ELSE basevtab \in VfsTabs
  /\ user = [w \in Wrappers |-> w = TheVfs]
  /\ pend = NoFault
  /\ unraisable = <<>>
  /\ fh = ClosedHandle
  /\ vfile = NewFile
  /\ bcall = NoBaseCall
  /\ gil = MainThread
  /\ thr = [t \in Threads |-> InEngine]
  /\ last = Done("start", 0, NoFault, NoArg, NoOutcome, 0, NoFault, 0, NoIo)
  /\ ub = FALSE

\* managed code calls a delegating method of the VFS: b is what the base
\* does if called, r the method's result, f the file object afterwards
PyVfsCall(ep, inject, b, r, f) ==
  /\ ~ub
  /\ pend = NoFault
  /\ obj[TheVfs].state = "alive"
  /\ vfsrec[obj[TheVfs].containingvfs].pAppData = TheVfs
  /\ bcall' = BaseCall(r.n, ep, b, gil)
  /\ vfile' = f
  /\ unraisable' = <<>>
  /\ last' = Done(ep, TheVfs, pend, Arg("", inject, {}, 0), r.out,
                  IF r.out.raised THEN 0 - 1 ELSE 0, r.out.exc, 0, NoIo)
  /\ UNCHANGED <<vfsList, vfsrec, obj, user, pend, fh, ub, basevtab, gil, thr>>

\* managed code calls a delegating method of the file object, which is
\* left as f
PyFileCall(ep, inject, b, r, f) ==
  /\ ~ub
  /\ pend = NoFault
  /\ bcall' = BaseCall(r.n, ep, b, gil)
  /\ vfile' = f
  /\ unraisable' = <<>>
  /\ last' = Done(ep, TheVfs, pend, Arg("", inject, {}, 0), r.out,
                  IF r.out.raised THEN 0 - 1 ELSE 0, r.out.exc, 0, NoIo)
  /\ UNCHANGED <<vfsList, vfsrec, obj, user, pend, fh, ub, basevtab, gil, thr>>

\* how a call was made: arguments that do not parse, a fault injected
How(argsok, inject) == IF ~argsok THEN "badargs" ELSE IF inject THEN "inject" ELSE "none"

\* VFS.xOpen: a file object is created over the file the base opened
Py_xOpen ==
  /\ vfile.base = "null"
  /\ \E argsok \in BOOLEAN, name \in {PyNone, PyUnicode(<<7>>), PyInt(1)},
        flagsok \in BOOLEAN, flag0 \in {PyInt(1), PyInt(INT_MAX + 1)},
        flag1 \in {PyInt(0), PyNone}, b \in OpenResults :
       LET r == apswvfspy_xOpen(VfsSelf, argsok, name, flagsok, flag0, flag1, b)
       IN \E tab \in IF r.opened THEN FileTabs ELSE {{}} :
            PyVfsCall("VFS.xOpen", How(argsok, FALSE), b, r,
                      IF r.opened THEN OpenFile(tab) ELSE vfile)

\* APSWVFSFile_init: the arguments parse and the flags are a sequence of
\* two integers or not, the named VFS is found or not, its xOpen gives b
APSWVFSFile_init(argsok, flagsok, found, b) ==
  IF ~argsok \/ ~flagsok THEN PyFail(Exc("TypeError", 0))
  ELSE IF ~found THEN PyFail(Exc("ValueError", 0))
  ELSE StatusResult(b.res, PyNone)

\* VFSFile(vfs, name, flags) on the file object; tab: the method table of
\* the file the base opens
Py_FileInit ==
  \E argsok \in BOOLEAN, flagsok \in BOOLEAN, found \in BOOLEAN, b \in OpenResults :
    LET r == APSWVFSFile_init(argsok, flagsok, found, b)
    IN \E tab \in IF r.out.raised THEN {{}} ELSE FileTabs :
         PyFileCall("VFSFile.init", How(argsok, FALSE), b, r,
                    IF r.out.raised THEN vfile ELSE OpenFile(tab))

\* VFSFile.xClose: the file object has no base afterwards. The method calls
\* self->base->pMethods->xClose with no check of the pointer: on a base
\* table without xClose that is a call through a null pointer, and the
\* method does not return
Py_xClose ==
  IF vfile.base # "null" /\ "xClose" \notin vfile.pMethods
    THEN /\ ~ub
         /\ pend = NoFault
         /\ ub' = TRUE
         /\ bcall' = NoBaseCall
         /\ unraisable' = <<>>
         /\ last' = Done("VFSFile.xClose", TheVfs, pend, Arg("", "none", {}, 0), NoOutcome,
                         0, NoFault, 0, NoIo)
         /\ UNCHANGED <<vfsList, vfsrec, obj, user, pend, fh, vfile, basevtab, gil, thr>>
    ELSE \E b \in StatusOnly, inject \in BOOLEAN :
           PyFileCall("VFSFile.xClose", How(TRUE, inject), b,
                      apswvfsfilepy_xClose(vfile, b, inject),
                      apswvfsfilepy_xClose(vfile, b, inject).file)

\* buffers a base leaves after a read of amount bytes: all of them read, or
\* fewer read and the rest zero-filled, or a failure
ReadResults(amount) ==
  {BaseRes(SQLITE_OK, 0, d) : d \in {x \in Bytes \cup Texts : Len(x) = amount}}
    \cup {BaseRes(SQLITE_IOERR_SHORT_READ, Len(d), d \o Zeros(amount - Len(d))) :
            d \in {x \in Bytes : Len(x) < amount}}
    \cup {BaseRes(SQLITE_IOERR, 0, Zeros(amount))}

NextPy ==
  \/ \E ok \in BOOLEAN, b \in StatusOnly :
       PyVfsCall("VFS.xDelete", How(ok, FALSE), b, apswvfspy_xDelete(VfsSelf, ok, b), vfile)
  \/ \E ok \in BOOLEAN, b \in StatusAndInt :
       PyVfsCall("VFS.xAccess", How(ok, FALSE), b, apswvfspy_xAccess(VfsSelf, ok, b), vfile)
  \/ \E name \in {PyUnicode(<<7>>), PyInt(1)}, res \in BaseStatuses, t \in Texts,
        inject \in BOOLEAN :
       LET b == BaseRes(res, 0, IF res = SQLITE_OK THEN t \o <<0>> ELSE <<0>>)
       IN PyVfsCall("VFS.xFullPathname", How(TRUE, inject), b,
                    apswvfspy_xFullPathname(VfsSelf, name, b, inject), vfile)
  \/ Py_xOpen
  \/ \E ok \in BOOLEAN, b \in NumberOnly :
       PyVfsCall("VFS.xDlOpen", How(ok, FALSE), b, apswvfspy_xDlOpen(VfsSelf, ok, b), vfile)
  \/ \E ok \in BOOLEAN, p \in Pointers, b \in NumberOnly :
       PyVfsCall("VFS.xDlSym", How(ok, FALSE), b, apswvfspy_xDlSym(VfsSelf, ok, p, b), vfile)
  \/ \E p \in Pointers :
       PyVfsCall("VFS.xDlClose", "none", BaseRes(0, 0, <<>>),
                 apswvfspy_xDlClose(VfsSelf, p), vfile)
  \/ \E t \in Texts, inject \in {"none", "alloc", "unicode"} :
       LET b == BaseRes(0, 0, t \o <<0>>)
       IN PyVfsCall("VFS.xDlError", inject, b, apswvfspy_xDlError(VfsSelf, b, inject), vfile)
  \/ \E ok \in BOOLEAN, nbyte \in {0 - 1} \cup Sizes, d \in Bytes, inject \in BOOLEAN :
       LET b == BaseRes(Len(d), 0, d)
       IN /\ Len(d) <= nbyte \/ nbyte < 0
          /\ PyVfsCall("VFS.xRandomness", How(ok, inject), b,
                       apswvfspy_xRandomness(VfsSelf, ok, nbyte, b, inject), vfile)
  \/ \E ok \in BOOLEAN, b \in NumberOnly :
       PyVfsCall("VFS.xSleep", How(ok, FALSE), b, apswvfspy_xSleep(VfsSelf, ok, b), vfile)
  \/ \E res \in {0, 1}, inject \in BOOLEAN :
       LET b == BaseRes(res, 3, <<>>)
       IN PyVfsCall("VFS.xCurrentTime", How(TRUE, inject), b,
                    apswvfspy_xCurrentTime(VfsSelf, b, inject), vfile)
  \/ \E t \in Texts, toobig \in BOOLEAN, inject \in BOOLEAN :
       LET b == BaseRes(0, 0, t \o <<0>>)
       IN PyVfsCall("VFS.xGetLastError", How(TRUE, inject), b,
                    apswvfspy_xGetLastError(VfsSelf, b, toobig, inject), vfile)
  \/ Py_FileInit
  \/ \E ok \in BOOLEAN, amount \in Sizes :
       \E b \in ReadResults(amount) :
         PyFileCall("VFSFile.xRead", How(ok, FALSE), b,
                    apswvfsfilepy_xRead(vfile, ok, amount, b), vfile)
  \/ \E ok \in BOOLEAN, buffy \in {PyBytes(<<7>>), PyUnicode(<<7>>), PyNone},
        b \in StatusOnly :
       PyFileCall("VFSFile.xWrite", How(ok, FALSE), b,
                  apswvfsfilepy_xWrite(vfile, ok, buffy, b), vfile)
  \/ \E ok \in BOOLEAN, b \in StatusOnly, inject \in BOOLEAN :
       PyFileCall("VFSFile.xUnlock", How(ok, inject), b,
                  apswvfsfilepy_xUnlock(vfile, ok, b, inject), vfile)
  \/ \E ok \in BOOLEAN, b \in StatusOnly :
       PyFileCall("VFSFile.xLock", How(ok, FALSE), b, apswvfsfilepy_xLock(vfile, ok, b), vfile)
  \/ \E ok \in BOOLEAN, b \in StatusOnly :
       PyFileCall("VFSFile.xTruncate", How(ok, FALSE), b,
                  apswvfsfilepy_xTruncate(vfile, ok, b), vfile)
  \/ \E ok \in BOOLEAN, b \in StatusOnly, inject \in BOOLEAN :
       PyFileCall("VFSFile.xSync", How(ok, inject), b,
                  apswvfsfilepy_xSync(vfile, ok, b, inject), vfile)
  \/ \E b \in NumberOnly :
       PyFileCall("VFSFile.xSectorSize", "none", b, apswvfsfilepy_xSectorSize(vfile, b), vfile)
  \/ \E b \in NumberOnly :
       PyFileCall("VFSFile.xDeviceCharacteristics", "none", b,
                  apswvfsfilepy_xDeviceCharacteristics(vfile, b), vfile)
  \/ \E b \in StatusAndInt, inject \in BOOLEAN :
       PyFileCall("VFSFile.xFileSize", How(TRUE, inject), b,
                  apswvfsfilepy_xFileSize(vfile, b, inject), vfile)
  \/ \E b \in StatusAndInt, inject \in {"none", "fails", "true"} :
       PyFileCall("VFSFile.xCheckReservedLock", inject, b,
                  apswvfsfilepy_xCheckReservedLock(vfile, b, inject), vfile)
  \/ \E ok \in BOOLEAN, p \in Pointers, b \in StatusOnly :
       PyFileCall("VFSFile.xFileControl", How(ok, FALSE), b,
                  apswvfsfilepy_xFileControl(vfile, ok, p, b), vfile)
  \/ Py_xClose

SpecPy == InitPy /\ [][NextPy]_vars

(* --------------------- inherited delegating methods -------------------- *)
\* A stack of shims: wrapper 1 is VFS("a", base="", makedefault=True) over
\* the engine's default VFS, wrapper k+1 is built the same way over wrapper
\* k. No managed object overrides a method, so an engine call into a shim
\* runs the entry point, which calls the delegating method, which calls the
\* base.
RECURSIVE Stack(_)
Stack(k) ==
  IF k = 0 THEN InitState
  ELSE APSWVFS_init(APSWVFS_new(Stack(k - 1), k), k, IF k % 2 = 1 THEN "a" ELSE "b",
                    "", TRUE, MaxLen, "none").st

\* the engine holds a file opened through the top shim; its managed object
\* is the file object vfile over the base's file
InitInherit ==
  /\ vfsList = Stack(MaxVfs).vfsList
  /\ vfsrec = Stack(MaxVfs).vfsrec
  /\ obj = Stack(MaxVfs).obj
  /\ user = [w \in Wrappers |-> TRUE]
  /\ pend = NoFault
  /\ unraisable = <<>>
  /\ fh = OpenHandle
  /\ vfile \in {OpenFile(tab) : tab \in FileTabs}
  /\ basevtab \in VfsTabs
  /\ bcall = NoBaseCall
  /\ gil = NoThread
  /\ thr = [t \in Threads |-> InEngine]
  /\ last = Done("start", 0, NoFault, NoArg, NoOutcome, 0, NoFault, 0, NoIo)
  /\ ub = FALSE

\* what the engine-facing xAccess of wrapper k gives when the VFS under the
\* stack gives b: out is the delegating method's result at wrapper k, r the
\* entry point's, n the calls that reached the VFS under the stack
RECURSIVE Stacked_xAccess(_, _)
Stacked_xAccess(k, b) ==
  LET below == IF k = 1 THEN [n |-> 1] ELSE Stacked_xAccess(k - 1, b)
      bk == IF k = 1 THEN b ELSE BaseRes(below.r.ret, below.r.io.res, <<>>)
      self == [basevfs |-> obj[k].basevfs, tab |-> IF k = 1 THEN basevtab ELSE VfsMethods]
      py == apswvfspy_xAccess(self, TRUE, bk)
  IN [out |-> py.out, r |-> apswvfs_xAccess(py.out), n |-> IF py.n > 0 THEN below.n ELSE 0]

\* the engine calls xAccess of wrapper k
Inherited_xAccess ==
  \E k \in Wrappers, b \in StatusAndInt :
    LET s == Stacked_xAccess(k, b)
        pre == VFSPREAMBLE(pend)
        post == VFSPOSTAMBLE(pre.saved, s.r.err)
    IN /\ ~ub
       /\ obj[k].state = "alive"
       /\ vfsrec[k].pAppData # NULL
       /\ pend' = post.pend
       /\ unraisable' = post.unraisable
       /\ bcall' = BaseCall(s.n, "xAccess", b, PyGILState_Ensure(gil, MainThread).gil)
       /\ last' = Done("xAccess", k, pend, Arg("", "inherited", {}, 0), s.out,
                       s.r.ret, s.r.err, 0, s.r.io)
       /\ UNCHANGED <<vfsList, vfsrec, obj, user, fh, ub, vfile, basevtab, gil, thr>>

\* APSWVFSFile_methods: the delegating method the file object inherits
\* under the name ep, called as the entry point calls it
APSWVFSFile_methods(ep, self, b) ==
  CASE ep = "xSync" -> apswvfsfilepy_xSync(self, TRUE, b, FALSE)
    [] ep = "xTruncate" -> apswvfsfilepy_xTruncate(self, TRUE, b)
    [] ep = "xLock" -> apswvfsfilepy_xLock(self, TRUE, b)
    [] ep = "xUnlock" -> apswvfsfilepy_xUnlock(self, TRUE, b, FALSE)
    [] ep = "xWrite" -> apswvfsfilepy_xWrite(self, TRUE, PyBytes(<<7>>), b)
    [] ep = "xFileControl" -> apswvfsfilepy_xFileControl(self, TRUE, PyInt(1), b)

\* apsw_io_methods: the entry point the engine reaches under the name ep
apsw_io_methods(ep, out) ==
  CASE ep = "xSync" -> apswvfsfile_xSync(out)
    [] ep = "xTruncate" -> apswvfsfile_xTruncate(out)
    [] ep = "xLock" -> apswvfsfile_xLock(out)
    [] ep = "xUnlock" -> apswvfsfile_xUnlock(out)
    [] ep = "xWrite" -> apswvfsfile_xWrite(out, "none")
    [] ep = "xFileControl" -> apswvfsfile_xFileControl(out)
    [] ep = "xRead" -> apswvfsfile_xRead(out, MaxLen, "none")
    [] ep = "xSectorSize" -> apswvfsfile_xSectorSize(out)
    [] ep = "xDeviceCharacteristics" -> apswvfsfile_xDeviceCharacteristics(out)
    [] ep = "xFileSize" -> apswvfsfile_xFileSize(out)
    [] ep = "xCheckReservedLock" -> apswvfsfile_xCheckReservedLock(out)
    [] ep = "xClose" -> apswvfsfile_xClose(out)

\* an engine call into a file entry point whose managed method is the
\* inherited one: py is that method's result after the base gave b
InheritedFileCall(ep, n, b, py, r) ==
  LET pre == FILEPREAMBLE(pend)
      post == FILEPOSTAMBLE(pre.saved, r.err)
  IN /\ ~ub
     /\ fh.pMethods # "null"
     /\ fh.file # "null"
     /\ pend' = post.pend
     /\ unraisable' = post.unraisable
     /\ bcall' = BaseCall(py.n, ep, b, PyGILState_Ensure(gil, MainThread).gil)
     /\ last' = Done(ep, TheVfs, pend, Arg("", "inherited", {}, n), py.out,
                     r.ret, r.err, 0, r.io)
     /\ UNCHANGED <<vfsList, vfsrec, obj, user, fh, ub, vfile, basevtab, gil, thr>>

Inherited_status ==
  \E ep \in {"xSync", "xTruncate", "xLock", "xUnlock", "xWrite", "xFileControl"},
     b \in StatusOnly :
    LET py == APSWVFSFile_methods(ep, vfile, b)
    IN InheritedFileCall(ep, 0, b, py, apsw_io_methods(ep, py.out))

Inherited_xRead ==
  \E amount \in Sizes :
    \E b \in ReadResults(amount) :
      LET py == apswvfsfilepy_xRead(vfile, TRUE, amount, b)
      IN InheritedFileCall("xRead", amount, b, py, apswvfsfile_xRead(py.out, amount, "none"))

NextInherit == Inherited_xAccess \/ Inherited_status \/ Inherited_xRead

SpecInherit == InitInherit /\ [][NextInherit]_vars

(* ------------------------- closing a file twice ----------------------- *)
\* The engine's handle with its managed file object, and a VFSFile object
\* that managed code creates, uses, closes and drops. The managed code runs
\* with the interpreter lock held.
InitClose ==
  /\ vfsList = Registered.vfsList
  /\ vfsrec = Registered.vfsrec
  /\ obj = Registered.obj
  /\ user = [w \in Wrappers |-> w = TheVfs]
  /\ pend = NoFault
  /\ unraisable = <<>>
  /\ fh = ClosedHandle
  /\ vfile = NewFile
  /\ basevtab = VfsMethods
  /\ bcall = NoBaseCall
  /\ gil = MainThread
  /\ thr = [t \in Threads |-> InEngine]
  /\ last = Done("start", 0, NoFault, NoArg, NoOutcome, 0, NoFault, 0, NoIo)
  /\ ub = FALSE

\* a step of the file object that is not a whole delegating method: f is
\* the object afterwards, u whether the step is undefined behaviour
FileStep(ep, inject, f, n, b, sunk, u) ==
  /\ ~ub
  /\ pend = NoFault
  /\ ub' = u
  /\ vfile' = f
  /\ bcall' = BaseCall(n, ep, b, gil)
  /\ unraisable' = sunk
  /\ last' = Done(ep, TheVfs, pend, Arg("", inject, {}, 0), NoOutcome, 0, NoFault, 0, NoIo)
  /\ UNCHANGED <<vfsList, vfsrec, obj, user, pend, fh, basevtab, gil, thr>>

\* the engine calls xClose on a handle it has closed already: the slot for
\* the file object is NULL, which CHECKVFSFILE asserts against and
\* Call_PythonMethodV is then given
Engine_xClose_closed ==
  /\ ~ub
  /\ fh.pMethods # "null"
  /\ fh.file = "null"
  /\ ub' = TRUE
  /\ last' = Done("xClose", TheVfs, pend, Arg("", "closed", {}, 0), NoOutcome, 0, NoFault,
                  0, NoIo)
  /\ UNCHANGED <<vfsList, vfsrec, obj, user, pend, unraisable, fh, pyvars>>

\* APSWVFSFile_new after the previous object is gone
File_new ==
  /\ vfile.state = "dead"
  /\ FileStep("VFSFile.new", "none", NewFile, 0, BaseRes(0, 0, <<>>), <<>>, FALSE)

File_init ==
  /\ vfile.state = "alive"
  /\ vfile.base = "null"
  /\ Py_FileInit

\* VFSFile.xClose enters the base's xClose (a call through a null pointer
\* when the base's table has none)
File_xClose_call ==
  /\ vfile.state = "alive"
  /\ vfile.base # "null"
  /\ ~vfile.closing
  /\ IF "xClose" \in vfile.pMethods
       THEN FileStep("base.xClose", "none", apswvfsfilepy_xClose_call(vfile), 0,
                     BaseRes(0, 0, <<>>), <<>>, FALSE)
     ELSE FileStep("VFSFile.xClose", "none", vfile, 0, BaseRes(0, 0, <<>>), <<>>, TRUE)

\* the base's xClose returns b and VFSFile.xClose finishes
File_xClose_return ==
  /\ vfile.closing
  /\ \E b \in StatusOnly, inject \in BOOLEAN :
       PyFileCall("VFSFile.xClose", How(TRUE, inject), b,
                  StatusResult(IF inject THEN SQLITE_IOERR ELSE b.res, PyNone),
                  apswvfsfilepy_xClose_return(vfile))

\* VFSFile.xClose on an object that has no base
File_xClose_closed ==
  /\ vfile.state = "alive"
  /\ vfile.base = "null"
  /\ Py_xClose

\* file operations, also from within the base's xClose
File_operation ==
  /\ vfile.state = "alive"
  /\ \/ \E ok \in BOOLEAN, b \in StatusOnly :
          PyFileCall("VFSFile.xSync", How(ok, FALSE), b,
                     apswvfsfilepy_xSync(vfile, ok, b, FALSE), vfile)
     \/ \E b \in StatusAndInt :
          PyFileCall("VFSFile.xFileSize", "none", b,
                     apswvfsfilepy_xFileSize(vfile, b, FALSE), vfile)

\* the last reference to the file object is dropped
File_dealloc ==
  /\ vfile.state = "alive"
  /\ ~vfile.closing
  /\ IF vfile.base # "null" /\ "xClose" \notin vfile.pMethods
       THEN FileStep("VFSFile.dealloc", "none", vfile, 0, BaseRes(0, 0, <<>>), <<>>, TRUE)
     ELSE \E b \in StatusOnly :
            LET d == APSWVFSFile_dealloc(vfile, b)
            IN FileStep("VFSFile.dealloc", "none", d.file, d.n, b, d.unraisable, FALSE)

NextClose ==
  \/ Engine_xOpen \/ Engine_xClose \/ Engine_xClose_closed
  \/ File_new \/ File_init \/ File_xClose_call \/ File_xClose_return
  \/ File_xClose_closed \/ File_operation \/ File_dealloc

SpecClose == InitClose /\ [][NextClose]_vars

(* ----------------------- the interpreter lock ------------------------- *)
VfsEntryPoints ==
  {"xDelete", "xAccess", "xFullPathname", "xOpen", "xDlOpen", "xDlSym", "xDlClose",
   "xDlError", "xRandomness", "xSleep", "xCurrentTime", "xGetLastError"}
FileEntryPoints ==
  {"xRead", "xWrite", "xUnlock", "xLock", "xTruncate", "xSync", "xSectorSize",
   "xDeviceCharacteristics", "xFileSize", "xCheckReservedLock", "xFileControl",
   "xClose"}

\* the functions APSWVFS_init stores in the record with METHOD(meth), as
\* called by the engine with the managed method's outcome out
METHOD(meth, out) ==
  CASE meth = "xDelete" -> apswvfs_xDelete(out)
    [] meth = "xAccess" -> apswvfs_xAccess(out)
    [] meth = "xFullPathname" -> apswvfs_xFullPathname(out, MaxLen + 1)
    [] meth = "xOpen" -> apswvfs_xOpen(out, "none")
    [] meth = "xDlOpen" -> apswvfs_xDlOpen(out)
    [] meth = "xDlSym" -> apswvfs_xDlSym(out)
    [] meth = "xDlClose" -> apswvfs_xDlClose(out)
    [] meth = "xDlError" -> apswvfs_xDlError(out, MaxLen)
    [] meth = "xRandomness" -> apswvfs_xRandomness(out, MaxLen)
    [] meth = "xSleep" -> apswvfs_xSleep(out)
    [] meth = "xCurrentTime" -> apswvfs_xCurrentTime(out)
    [] meth = "xGetLastError" -> apswvfs_xGetLastError(out, MaxLen)

\* outcomes of the managed method: None, a number, an object with a good
\* flags list, an exception
ThreadOutcomes ==
  {NoOutcome, Outcome(FALSE, NoFault, PyInt(1), TRUE, PyNone),
   Outcome(FALSE, NoFault, PyObject, TRUE, PyInt(1)),
   Outcome(TRUE, Exc("ZeroDivisionError", 0), PyNone, TRUE, PyNone)}

\* Threads call the entry points of one registered shim and of the one
\* file handle. Each call is two steps: the preamble, which takes the lock,
\* and the rest of the function up to the return.
InitGil ==
  /\ vfsList = Registered.vfsList
  /\ vfsrec = Registered.vfsrec
  /\ obj = Registered.obj
  /\ user = [w \in Wrappers |-> w = TheVfs]
  /\ pend = NoFault
  /\ unraisable = <<>>
  /\ fh = ClosedHandle
  /\ vfile = NewFile
  /\ basevtab = VfsMethods
  /\ bcall = NoBaseCall
  /\ gil = NoThread
  /\ thr = [t \in Threads |-> InEngine]
  /\ last = Done("start", 0, NoFault, NoArg, NoOutcome, 0, NoFault, 0, NoIo)
  /\ ub = FALSE

\* thread t gets the lock to run managed code of its own, and gives it up
Thread_python(t) ==
  /\ \/ /\ thr[t].pc = "engine"
        /\ gil = NoThread
        /\ gil' = t
        /\ thr' = [thr EXCEPT ![t].pc = "python"]
     \/ /\ thr[t].pc = "python"
        /\ gil' = NoThread
        /\ thr' = [thr EXCEPT ![t] = InEngine]
  /\ UNCHANGED <<vfsList, vfsrec, obj, user, pend, unraisable, fh, last, ub, vfile,
                 basevtab, bcall>>

\* VFSPREAMBLE / FILEPREAMBLE of entry point ep in thread t, called from
\* the engine or from the thread's own managed code: PyGILState_Ensure
\* returns once the lock is free or the thread's own
Thread_preamble(t, ep) ==
  /\ thr[t].pc \in {"engine", "python"}
  /\ gil \in {NoThread, t}
  /\ vfsrec[TheVfs].pAppData # NULL
  /\ ep \in FileEntryPoints => fh.pMethods # "null" /\ fh.file # "null"
  /\ ep = "xOpen" => fh.file = "null"
  /\ LET e == PyGILState_Ensure(gil, t)
     IN /\ gil' = e.gil
        /\ thr' = [thr EXCEPT ![t] = [pc |-> "managed", ep |-> ep, gilstate |-> e.gilstate]]
  /\ UNCHANGED <<vfsList, vfsrec, obj, user, pend, unraisable, fh, last, ub, vfile,
                 basevtab, bcall>>

\* the body with the managed call, the postamble and the return; inject
\* is the allocation failure before the managed call in xOpen and xWrite
Thread_return(t, out, inject) ==
  LET ep == thr[t].ep
      r == IF ep = "xOpen" THEN apswvfs_xOpen(out, inject)
           ELSE IF ep = "xWrite" THEN apswvfsfile_xWrite(out, inject)
           ELSE IF ep \in VfsEntryPoints THEN METHOD(ep, out)
           ELSE apsw_io_methods(ep, out)
      post == IF ep \in VfsEntryPoints THEN VFSPOSTAMBLE(VFSPREAMBLE(pend).saved, r.err)
              ELSE FILEPOSTAMBLE(FILEPREAMBLE(pend).saved, r.err)
  IN /\ thr[t].pc = "managed"
     /\ inject = "oom" => ep \in {"xOpen", "xWrite"}
     /\ pend' = post.pend
     /\ unraisable' = post.unraisable
     /\ fh' = IF ep = "xOpen"
                THEN IF r.install
                       THEN [pMethods |-> "apsw_io_methods", file |-> "file", refs |-> r.held]
                     ELSE [fh EXCEPT !.refs = @ + r.held]
              ELSE IF ep = "xClose"
                THEN [fh EXCEPT !.file = IF r.clear THEN "null" ELSE @,
                                !.refs = IF r.decref THEN @ - 1 ELSE @]
              ELSE fh
     /\ last' = Done(ep, TheVfs, pend, Arg("", inject, {}, t), out, r.ret, r.err, 0, r.io)
     /\ gil' = PyGILState_Release(gil, thr[t].gilstate)
     /\ thr' = [thr EXCEPT ![t] = [InEngine EXCEPT !.pc = IF thr[t].gilstate = "LOCKED"
                                                            THEN "python" ELSE "engine"]]
     /\ UNCHANGED <<vfsList, vfsrec, obj, user, ub, vfile, basevtab, bcall>>

NextGil ==
  \/ \E t \in Threads : Thread_python(t)
  \/ \E t \in Threads, ep \in VfsEntryPoints \cup FileEntryPoints : Thread_preamble(t, ep)
  \/ \E t \in Threads, out \in ThreadOutcomes, inject \in {"none", "oom"} :
       Thread_return(t, out, inject)

SpecGil == InitGil /\ [][NextGil]_vars

(* ------------------------------- claims ------------------------------- *)
InTable(list, r) == \E i \in DOMAIN list : list[i] = r
NameCount(list, recs, zName) ==
  Cardinality({i \in DOMAIN list : recs[list[i]].zName = zName})

\* C1: unregister of a constructed wrapper removes its record from the
\* engine's table and clears the registered flag; a call on a wrapper whose
\* flag is already clear makes no engine call, changes nothing and succeeds,
\* whatever status the first call reported.
C1_UnregisterIdempotent ==
  [][ (last'.ep = "unregister" /\ obj[last'.w].state = "alive")
        => /\ ~obj'[last'.w].registered
           /\ ~InTable(vfsList', obj[last'.w].containingvfs)
           /\ (~obj[last'.w].registered
                 => /\ last'.ecalls = 0
                    /\ last'.ret = 0
                    /\ last'.err = NoFault
                    /\ UNCHANGED <<vfsList, vfsrec, obj, user, pend, fh>>) ]_vars

C1_Witness ==
  /\ last.ep = "unregister"
  /\ last.ecalls = 0
  /\ last.ret = 0
  /\ obj[last.w].state = "alive"
  /\ obj[last.w].containingvfs # NULL
  /\ ~obj[last.w].registered

\* C2: every wrapper whose registered flag is set has its name in the
\* engine's table exactly once, and no live wrapper whose flag is clear has
\* its record in the table.
C2_NameExactlyOnce ==
  \A w \in Wrappers :
    obj[w].state = "alive" =>
      IF obj[w].registered
        THEN NameCount(vfsList, vfsrec, vfsrec[obj[w].containingvfs].zName) = 1
        ELSE ~InTable(vfsList, w)

BaseMissing(base) ==
  /\ base # NoBase
  /\ IF base = "" THEN vfsList = <<>>
     ELSE \A i \in DOMAIN vfsList : vfsrec[vfsList[i]].zName # base
BaseVersionBad(base, inject) ==
  /\ base # NoBase
  /\ ~BaseMissing(base)
  /\ \/ inject = "badversion"
     \/ vfsrec[sqlite3_vfs_find(vfsList, vfsrec, base)].iVersion # 1

\* C3: a construction whose base is not registered, whose base declares a
\* version other than 1, or whose register call fails, fails: the registered
\* flag stays clear, the engine's table is unchanged, and the wrapper holds
\* no native record (containingvfs is null, the record is not allocated).
C3_FailedConstruction ==
  [][ (/\ last'.ep = "init"
       /\ \/ BaseMissing(last'.arg.base)
          \/ BaseVersionBad(last'.arg.base, last'.arg.inject)
          \/ last'.arg.inject = "regfail")
        => /\ last'.ret # 0
           /\ last'.err # NoFault
           /\ ~obj'[last'.w].registered
           /\ vfsList' = vfsList
           /\ obj'[last'.w].containingvfs = NULL
           /\ vfsrec'[last'.w].mem # "alloc" ]_vars

C3_Witness ==
  /\ last.ep = "init"
  /\ last.arg.inject = "regfail"
  /\ last.ret # 0
  /\ vfsrec[last.w].mem = "freed"
  /\ obj[last.w].containingvfs = NULL

\* C4: while a shim B is registered with a base A that is itself a shim,
\* A's wrapper is alive and A's native record is allocated and still A's,
\* under every interleaving of unregister and of the user dropping A and B.
C4_BaseOutlivesShim ==
  \A b \in Wrappers :
    (obj[b].state = "alive" /\ obj[b].registered /\ obj[b].basevfs \in Wrappers)
      => /\ obj[obj[b].basevfs].state = "alive"
         /\ vfsrec[obj[b].basevfs].mem = "alloc"
         /\ vfsrec[obj[b].basevfs].pAppData = obj[b].basevfs

C4_Witness ==
  \E b \in Wrappers :
    /\ obj[b].state = "alive" /\ obj[b].registered /\ obj[b].basevfs \in Wrappers
    /\ ~user[obj[b].basevfs]
    /\ ~obj[obj[b].basevfs].registered
    /\ obj[obj[b].basevfs].state = "alive"

Destroyed == {w \in Wrappers : obj[w].state = "alive" /\ obj'[w].state = "dead"}

\* C5: teardown of a wrapper that is still registered unregisters it from
\* the engine; a failure of that unregister goes to the unraisable sink
\* only, and the pending exception after teardown is the one before it.
C5_TeardownUnregisters ==
  [][ (last'.ep = "release" /\ obj[last'.w].state = "alive")
        => /\ pend' = pend
           /\ (obj[last'.w].refcnt = 1 /\ ~ub' => last'.w \in Destroyed)
           /\ \A w \in Destroyed : obj[w].registered => ~InTable(vfsList', w)
           /\ Len(unraisable') =
                Cardinality({w \in Destroyed : obj[w].registered /\ w \in last'.arg.inj})
           /\ \A i \in DOMAIN unraisable' :
                unraisable'[i] = Exc("IOError", SQLITE_IOERR) ]_vars

C5_Witness ==
  /\ last.ep = "release"
  /\ obj[last.w].state = "dead"
  /\ Len(unraisable) = 1
  /\ pend # NoFault

EntryPoints == VfsEntryPoints \cup FileEntryPoints
\* entry points whose return value is a status code
StatusEntryPoints ==
  {"xDelete", "xAccess", "xFullPathname", "xOpen", "xRead", "xWrite", "xUnlock",
   "xLock", "xTruncate", "xSync", "xFileSize", "xCheckReservedLock",
   "xFileControl", "xClose"}
\* entry points with no way to report an error, and what they return then
NoChannelEntryPoints ==
  {"xSleep", "xDlOpen", "xDlSym", "xDlClose", "xDlError", "xRandomness"}

\* the managed method's return value is of the type and size the entry
\* point ep accepts (d: the record of the call)
AcceptedReturn(d) ==
  LET v == d.out.val
      isint == v.t = "int"
  IN CASE d.ep \in {"xAccess", "xCheckReservedLock", "xFileSize"} ->
            isint /\ FitsLong(v.n)
       [] d.ep = "xFullPathname" -> v.t = "unicode" /\ Len(v.b) + 1 <= d.arg.n
       [] d.ep = "xOpen" ->
            /\ d.out.flagsok
            /\ d.out.flag1.t = "int"
            /\ (d.arg.inject # "noflags" => FitsLong(d.out.flag1.n))
       [] d.ep \in {"xDlOpen", "xDlSym"} ->
            isint /\ v.n >= 0 - LONG_MAX - 1 /\ v.n <= 2 * LONG_MAX + 1
       [] d.ep \in {"xDlError", "xGetLastError"} -> v.t \in {"none", "unicode"}
       [] d.ep = "xRandomness" -> v.t \in {"none", "bytes"}
       [] d.ep = "xSleep" -> isint /\ FitsInt(v.n)
       [] d.ep = "xCurrentTime" -> v.t \in {"float", "int"}
       [] d.ep = "xRead" -> v.t = "bytes"
       [] d.ep \in {"xSectorSize", "xDeviceCharacteristics"} ->
            v.t = "none" \/ (isint /\ FitsLong(v.n))
       [] OTHER -> TRUE

\* a fault occurred during the call: the managed method raised, its return
\* value was rejected, or an allocation or buffer access of the bridge failed
Faulted(d) ==
  \/ d.arg.inject \in {"oom", "asrb"}
  \/ d.out.raised
  \/ ~AcceptedReturn(d)

\* C6: after any engine-facing entry point returns, the thread's pending
\* exception is exactly the one that was pending when it was entered,
\* whatever happened inside.
C6_PendingRestored ==
  last.ep \in EntryPoints => pend = last.entry

C6_Witness ==
  /\ last.ep \in EntryPoints
  /\ last.out.raised
  /\ last.err # NoFault
  /\ last.entry # NoFault
  /\ pend = last.entry

\* C7: an entry point that returns a status returns OK only if the managed
\* method returned normally and its value passed every check, and never
\* returns OK when a fault occurred or is pending at its end.
C7_SuccessOnlyWithoutFault ==
  last.ep \in StatusEntryPoints =>
    /\ last.ret = SQLITE_OK => ~Faulted(last)
    /\ last.err # NoFault => last.ret # SQLITE_OK

C7_Witness ==
  /\ last.ep = "xFileSize"
  /\ ~last.out.raised
  /\ last.out.val.t = "int"
  /\ ~FitsLong(last.out.val.n)
  /\ last.ret # SQLITE_OK

BusyLock(d) ==
  d.ep = "xLock" /\ d.out.raised /\ CodeOfClass(d.out.exc.cls) = SQLITE_BUSY

\* C8 as stated: whenever a fault occurred during an entry point, the sink
\* has been invoked exactly once for that call by the time it returns.
C8_SinkOncePerFault ==
  (last.ep \in EntryPoints /\ Faulted(last)) => Len(unraisable) = 1

\* C8 amended: the sink is invoked exactly once for a faulting call, except
\* for a busy fault raised by the managed xLock, which is cleared and never
\* reaches the sink; in both cases the caller's pending exception is what
\* it was on entry.
C8_SinkOnceExceptBusyLock ==
  (last.ep \in EntryPoints /\ Faulted(last)) =>
    /\ pend = last.entry
    /\ IF BusyLock(last) THEN unraisable = <<>> /\ last.ret % 256 = SQLITE_BUSY
       ELSE Len(unraisable) = 1 /\ unraisable[1] = last.err

C8_Witness ==
  /\ last.ep = "xWrite"
  /\ last.out.raised
  /\ last.ret # SQLITE_OK
  /\ unraisable = <<last.out.exc>>

\* C9: an entry point with no error channel returns its fixed default (0,
\* a null handle, nothing) whenever a fault occurred, numeric overflow of
\* the managed return value included, and the fault goes to the sink.
C9_DefaultOnFault ==
  (last.ep \in NoChannelEntryPoints /\ Faulted(last)) =>
    /\ last.ret = 0
    /\ Len(unraisable) = 1

\* C10: xSectorSize returns 512 and xDeviceCharacteristics 0 when the
\* managed method raises or returns something that is neither a number nor
\* None, the fault going to the sink and no status code being returned;
\* None gives the same defaults without a fault.
C10_SectorDefaults ==
  LET default == IF last.ep = "xSectorSize" THEN DefaultSectorSize ELSE 0
  IN last.ep \in {"xSectorSize", "xDeviceCharacteristics"} =>
       /\ (last.out.raised \/ last.out.val.t \notin {"none", "int"})
            => last.ret = default /\ Len(unraisable) = 1
       /\ (~last.out.raised /\ last.out.val = PyNone)
            => last.ret = default /\ unraisable = <<>> /\ last.err = NoFault

C10_Witness ==
  /\ last.ep = "xSectorSize"
  /\ last.out.raised
  /\ last.out.exc.cls = "IOError"
  /\ last.ret = DefaultSectorSize
  /\ Len(unraisable) = 1

\* the status code of an exception e: its extended code with the low byte
\* replaced by the primary code of its class
StatusOf(e) == (e.ext - (e.ext % 256)) + CodeOfClass(e.cls)
\* the managed method was called and raised a busy exception
BusyRaised(d) ==
  /\ d.arg.inject \notin {"oom"}
  /\ d.out.raised
  /\ CodeOfClass(d.out.exc.cls) = SQLITE_BUSY

\* C11: when the managed xLock raises, the engine gets the status code of
\* the exception and the caller's pending exception is restored; a busy
\* exception is cleared without a sink call, any other goes to the sink.
C11_LockBusySuppressed ==
  (last.ep = "xLock" /\ last.out.raised) =>
    /\ last.ret = StatusOf(last.out.exc)
    /\ pend = last.entry
    /\ IF last.ret % 256 = SQLITE_BUSY THEN unraisable = <<>>
       ELSE unraisable = <<last.out.exc>>

C11_Witness ==
  /\ last.ep = "xLock"
  /\ last.out.exc = Exc("BusyError", SQLITE_BUSY + 256)
  /\ last.ret = SQLITE_BUSY + 256
  /\ unraisable = <<>>
  /\ pend # NoFault

\* C12 as stated: a busy exception raised by the managed method of any
\* entry point is swallowed, the sink is not called.
C12_BusySwallowedEverywhere ==
  (last.ep \in EntryPoints /\ BusyRaised(last)) => unraisable = <<>>

\* C12 amended: a busy exception is swallowed only by xLock; every other
\* entry point hands it to the sink once, and every entry point that
\* returns a status returns the busy status code.
C12_BusySwallowedOnlyByLock ==
  (last.ep \in EntryPoints /\ BusyRaised(last)) =>
    /\ last.ep = "xLock" => unraisable = <<>>
    /\ last.ep # "xLock" => unraisable = <<last.out.exc>>
    /\ last.ep \in StatusEntryPoints => last.ret = StatusOf(last.out.exc)

C12_Witness ==
  /\ last.ep = "xCheckReservedLock"
  /\ BusyRaised(last)
  /\ last.ret = SQLITE_BUSY
  /\ Len(unraisable) = 1

\* C13: for bytes d returned by the managed xRead, a result shorter than
\* amount gives the short-read status and a buffer of d followed by zeros
\* up to amount; otherwise success and the first amount bytes of d; exactly
\* amount bytes are written.
C13_ReadZeroFill ==
  LET d == last.out.val.b
      amount == last.arg.n
  IN (last.ep = "xRead" /\ ~last.out.raised /\ last.out.val.t = "bytes"
        /\ last.arg.inject = "none") =>
       /\ last.ret = IF Len(d) < amount THEN SQLITE_IOERR_SHORT_READ ELSE SQLITE_OK
       /\ Len(last.io.buf) = amount
       /\ \A i \in 1..amount :
            last.io.buf[i] = IF i <= Len(d) THEN d[i] ELSE 0

C13_Witness ==
  /\ last.ep = "xRead"
  /\ last.ret = SQLITE_IOERR_SHORT_READ
  /\ Len(last.out.val.b) > 0
  /\ Len(last.io.buf) > Len(last.out.val.b)
  /\ last.io.buf[Len(last.io.buf)] = 0

\* C15: a managed xFullPathname result longer than mxPathname gives the
\* path-too-long status and nothing is written; a result of at most
\* mxPathname bytes succeeds and is copied whole with its terminator.
C15_FullPathnameTooBig ==
  LET b == last.out.val.b
      maxPathname == vfsrec[TheVfs].mxPathname
  IN (last.ep = "xFullPathname" /\ ~last.out.raised /\ last.out.val.t = "unicode") =>
       IF Len(b) > maxPathname
         THEN last.ret = SQLITE_TOOBIG /\ last.io.buf = <<>>
       ELSE last.ret = SQLITE_OK /\ last.io.buf = b \o <<0>>

C15_Witness ==
  /\ last.ep = "xFullPathname"
  /\ last.out.val.t = "unicode"
  /\ Len(last.out.val.b) = vfsrec[TheVfs].mxPathname + 1
  /\ last.ret = SQLITE_TOOBIG
  /\ last.io.buf = <<>>

\* C16: a successful xOpen with an achieved-flags slot writes to the slot
\* exactly the integer the managed xOpen left in item 1 of the flags list;
\* when that item is not an integer or does not fit the int flag word,
\* xOpen fails with a fault.
C16_OutFlagsExact ==
  LET f == last.out.flag1
  IN (last.ep = "xOpen" /\ last.arg.inject = "none" /\ ~last.out.raised) =>
       IF last.out.flagsok /\ f.t = "int" /\ FitsInt(f.n)
         THEN last.ret = SQLITE_OK /\ last.io.set /\ last.io.res = f.n
       ELSE last.ret # SQLITE_OK /\ Len(unraisable) = 1

\* C14: when the base's xRead reports a short read, the inherited
\* VFSFile.xRead returns, without a fault, the prefix of the zero-filled
\* buffer that ends at its last non-zero byte; the prefix is as long as the
\* data the base read when that data does not end in a zero byte; and the
\* shim's entry point gives the engine the same short read with the same
\* buffer.
C14_ShortReadPrefix ==
  LET b == bcall.b
      p == last.out.val.b
      amount == last.arg.n
  IN (last.ep = "xRead" /\ last.arg.inject = "inherited" /\ bcall.n = 1
        /\ b.res = SQLITE_IOERR_SHORT_READ) =>
       /\ ~last.out.raised
       /\ last.out.val.t = "bytes"
       /\ Len(p) <= amount
       /\ \A i \in 1..Len(p) : p[i] = b.buf[i]
       /\ p = <<>> \/ p[Len(p)] # 0
       /\ \A i \in (Len(p) + 1)..amount : b.buf[i] = 0
       /\ (b.val = 0 \/ b.buf[b.val] # 0) => Len(p) = b.val
       /\ last.ret = SQLITE_IOERR_SHORT_READ
       /\ last.io.buf = b.buf

C14_Witness ==
  /\ last.ep = "xRead"
  /\ last.arg.inject = "inherited"
  /\ bcall.n = 1
  /\ bcall.b.res = SQLITE_IOERR_SHORT_READ
  /\ Len(last.out.val.b) > 0
  /\ bcall.b.val > Len(last.out.val.b)
  /\ last.ret = SQLITE_IOERR_SHORT_READ

\* C17: through a stack of shims over a VFS X, none of which overrides
\* xAccess, the engine-facing xAccess of any shim of the stack returns the
\* status X's xAccess returned and, on success, stores non-zero exactly when
\* X stored non-zero.
C17_AccessDelegation ==
  (last.ep = "xAccess" /\ last.arg.inject = "inherited" /\ bcall.n = 1) =>
    /\ last.ret = bcall.b.res
    /\ bcall.b.res = SQLITE_OK =>
         /\ last.io.set
         /\ (last.io.res # 0) <=> (bcall.b.val # 0)

C17_Witness ==
  /\ last.ep = "xAccess"
  /\ last.arg.inject = "inherited"
  /\ last.w = MaxVfs
  /\ bcall.n = 1
  /\ bcall.b.val = 3
  /\ last.ret = SQLITE_OK
  /\ last.io.res = 1

\* C18: when the managed file object inherits xSync, xTruncate, xLock,
\* xUnlock, xWrite or xFileControl, the status the engine receives from the
\* shim's entry point is the status the base file's method returned.
C18_FileStatusDelegation ==
  (last.ep \in {"xSync", "xTruncate", "xLock", "xUnlock", "xWrite", "xFileControl"}
     /\ last.arg.inject = "inherited" /\ bcall.n = 1) =>
    last.ret = bcall.b.res

C18_Witness ==
  /\ last.ep = "xSync"
  /\ last.arg.inject = "inherited"
  /\ bcall.n = 1
  /\ bcall.b.res = SQLITE_FULL
  /\ last.ret = SQLITE_FULL
  /\ unraisable = <<Exc("FullError", SQLITE_FULL)>>

\* C19: a delegating method of the VFS called with no base, or with a base
\* whose vtable lacks the method, and a delegating method of an open file
\* object whose base table lacks the method, raises the not-implemented
\* fault and makes no call into the base; a fault raised after a base call
\* is never the not-implemented fault.
NotImplementedRaised ==
  /\ last.out.raised
  /\ last.out.exc = ExcVFSNotImplemented
  /\ bcall = NoBaseCall
  /\ ~ub

C19_NotImplementedEverywhere ==
  /\ \A x \in VfsMethods :
       (last.ep = "VFS." \o x /\ (obj[TheVfs].basevfs = NULL \/ x \notin basevtab)) =>
         NotImplementedRaised
  /\ \A x \in FileMethods :
       (last.ep = "VFSFile." \o x /\ vfile.base # "null" /\ x \notin vfile.pMethods) =>
         NotImplementedRaised
  /\ bcall.n > 0 => last.out.exc # ExcVFSNotImplemented

\* C20: once xClose has returned, with or without a fault, the file object
\* has no base; on a file object without a base (closed, or never
\* constructed) every operation other than xClose raises the file-closed
\* fault, also where the not-implemented check would fire, and makes no call
\* into the base.
FileOperations ==
  {"VFSFile." \o x : x \in FileMethods \ {"xClose"}}

C20_ClosedFileFaults ==
  /\ (last.ep = "VFSFile.xClose" /\ ~ub) => vfile.base = "null"
  /\ (last.ep \in FileOperations /\ vfile.base = "null") =>
       /\ last.out.raised
       /\ last.out.exc = ExcVFSFileClosed
       /\ bcall = NoBaseCall

C20_Witness ==
  /\ last.ep = "VFSFile.xSync"
  /\ vfile.base = "null"
  /\ last.out.raised
  /\ last.out.exc = ExcVFSFileClosed
  /\ bcall = NoBaseCall

\* C26: for a request of n bytes and bytes r returned by the managed
\* xRandomness, exactly the first min(len(r), n) bytes of r are written at
\* the start of the buffer, nothing after them, and min(len(r), n) is
\* returned; None writes nothing and returns 0.
C26_RandomnessCopy ==
  LET r == last.out.val.b
      n == last.arg.n
      k == IF Len(r) < n THEN Len(r) ELSE n
  IN /\ (last.ep = "xRandomness" /\ ~last.out.raised /\ last.out.val.t = "bytes") =>
          /\ last.ret = k
          /\ Len(last.io.buf) = k
          /\ \A i \in 1..k : last.io.buf[i] = r[i]
          /\ last.err = NoFault
     /\ (last.ep = "xRandomness" /\ ~last.out.raised /\ last.out.val = PyNone) =>
          /\ last.ret = 0
          /\ last.io.buf = <<>>
          /\ last.err = NoFault

C26_Witness ==
  /\ last.ep = "xRandomness"
  /\ last.out.val.t = "bytes"
  /\ Len(last.out.val.b) = MaxLen
  /\ last.arg.n = MaxLen - 1
  /\ last.ret = MaxLen - 1
  /\ Len(last.io.buf) = MaxLen - 1

\* C27: when the base's xFullPathname returns a status other than success,
\* the delegating VFS.xFullPathname raises the exception of that status.
C27_FullPathnameForwardsStatus ==
  (last.ep = "VFS.xFullPathname" /\ bcall.n = 1 /\ bcall.b.res # SQLITE_OK) =>
    /\ last.out.raised
    /\ last.out.exc = SET_EXC(bcall.b.res, NoFault)

\* C30: xOpen stores the file object and the method table in the handle
\* only when it returns success; when it fails the handle is as it was on
\* entry and the bridge holds no reference on the object the managed xOpen
\* returned.
C30_OpenInstallsLast ==
  [][last'.ep = "xOpen" =>
       IF last'.ret = SQLITE_OK
         THEN /\ fh' = OpenHandle
              /\ last'.err = NoFault
       ELSE fh' = fh]_vars

C30_Witness ==
  /\ last.ep = "xOpen"
  /\ ~last.out.raised
  /\ last.out.val = PyObject
  /\ ~last.out.flagsok
  /\ last.ret = SQLITE_CANTOPEN
  /\ fh = ClosedHandle

\* C21: the base's xClose is called at most once and the native file freed
\* at most once on a file object; when the object gives up its base, by
\* xClose or by deallocation, both have happened exactly once; an object
\* that is deallocated has given up its base; and xClose on an object
\* without a base returns None, makes no base call and changes nothing.
C21_CloseOnce ==
  [][/\ vfile'.closes <= 1
     /\ vfile'.frees <= 1
     /\ (vfile.base # "null" /\ vfile'.base = "null" /\ ~ub') =>
          (vfile'.closes = 1 /\ vfile'.frees = 1)
     /\ (vfile'.state = "dead" /\ ~ub') => vfile'.base = "null"
     /\ (vfile.base = "null" /\ last'.ep = "VFSFile.xClose") =>
          /\ ~last'.out.raised
          /\ last'.out.val = PyNone
          /\ bcall' = NoBaseCall
          /\ vfile' = vfile]_vars

C21_Witness ==
  /\ last.ep = "VFSFile.dealloc"
  /\ vfile.state = "dead"
  /\ vfile.closes = 1
  /\ vfile.frees = 1
  /\ bcall = NoBaseCall

\* C22: after the engine-facing xClose the handle's slot for the file
\* object is NULL and the reference dropped, also when the managed xClose
\* raised, and then the status of the exception is returned; after a
\* VFSFile.xClose whose base returned a failure status the native file is
\* freed and the object has no base, and the exception of that status is
\* raised.
C22_CloseReleasesOnFailure ==
  /\ (last.ep = "xClose" /\ ~ub) =>
       /\ fh.file = "null"
       /\ fh.refs = 0
       /\ last.out.raised =>
            /\ last.ret = MakeSqliteMsgFromPyException(last.out.exc)
            /\ last.ret # SQLITE_OK
  /\ (last.ep = "VFSFile.xClose" /\ bcall.n = 1 /\ bcall.b.res # SQLITE_OK) =>
       /\ last.out.raised
       /\ last.arg.inject = "none" => last.out.exc = SET_EXC(bcall.b.res, NoFault)
       /\ vfile.base = "null"
       /\ vfile.pMethods = {}
       /\ vfile.frees = 1

C22_Witness ==
  /\ last.ep = "xClose"
  /\ last.out.raised
  /\ last.ret = SQLITE_FULL
  /\ fh.file = "null"
  /\ fh.refs = 0
  /\ vfile.base = "null"
  /\ vfile.frees = 1

\* C23: a second call of the engine-facing xClose on a handle already
\* closed is defined, returns success and reports nothing.
C23_SecondCloseNoop ==
  (last.ep = "xClose" /\ last.arg.inject = "closed") =>
    /\ ~ub
    /\ last.ret = SQLITE_OK
    /\ unraisable = <<>>

\* C28: while the base's xClose is running the file object still has its
\* base and method table and the native file is not freed; a file operation
\* called in that time is not refused as closed and, when the base has the
\* method and the arguments parse, it calls the base.
C28_ClosedAfterBaseClose ==
  /\ vfile.closing =>
       /\ vfile.base # "null"
       /\ "xClose" \in vfile.pMethods
       /\ vfile.frees = 0
  /\ \A x \in FileMethods \ {"xClose"} :
       (last.ep = "VFSFile." \o x /\ vfile.closing) =>
         /\ last.out.exc # ExcVFSFileClosed
         /\ (x \in vfile.pMethods /\ last.arg.inject # "badargs") => bcall.n = 1

C28_Witness ==
  /\ last.ep = "VFSFile.xSync"
  /\ vfile.closing
  /\ bcall.n = 1
  /\ ~last.out.raised

\* C29: the reference a wrapper's teardown drops on the wrapper of its shim
\* base was taken by its construction, whatever the construction's outcome:
\* a wrapper its user still holds is alive with a count of at least one.
C29_BalancedReference ==
  \A a \in Wrappers :
    (user[a] /\ ~ub) => (obj[a].state = "alive" /\ obj[a].refcnt >= 1)

C25_NoLockDuringNative ==
  (bcall.n > 0 /\ bcall.ep \in {"VFS.xSleep", "VFSFile.xRead", "VFSFile.xWrite",
                                "VFSFile.xSync", "VFSFile.xLock"})
    => bcall.gil = NoThread

====
